---- MODULE Spec2Model ----
(***************************************************************************)
(* Model of the Baldur's Gate 3 companion API (backend/app): the row store *)
(* adapter of database.py, the build aggregate handlers, and the loot and  *)
(* bestiary handlers of main.py, with the request models of schemas.py.    *)
(*                                                                         *)
(* Text is a sequence of one-character strings.  Every storage statement   *)
(* (one SELECT, or one statement plus its commit, or one write transaction *)
(* up to its commit) is one atomic step: each runs on its own SQLite       *)
(* connection, and SQLite serialises statements of different connections.  *)
(* Requests run in slots; the steps of different slots interleave freely.  *)
(***************************************************************************)
EXTENDS Integers, Sequences, FiniteSets, TLC

\* ------------------------------------------------------------------------
\* Bounds of the model
\* ------------------------------------------------------------------------

\* Largest level number a request or a stored row carries in the model.
MaxLevelNo == 2

\* Request slots: requests in flight at the same time.  Slot 1 takes every
\* request with every storage fault; the other slots take every request too,
\* with no storage fault, and a create or an update there carries no levels.
Reqs == {1, 2}

FullSlots == {1}

\* ------------------------------------------------------------------------
\* Text: str.strip, str.casefold, str.split(","), NOCASE comparison
\* ------------------------------------------------------------------------

\* Python None / SQL NULL.
NULL == <<"<null>">>

\* The empty string.
EMPTY == <<>>

\* The characters of the texts; BACKSPACE stands for U+0008.
BACKSPACE == "<U+0008>"

Chars == {"a", "b", "A", "B", " ", ",", "[", "]", "\"", "\\", BACKSPACE}

Code(c) ==
    CASE c = BACKSPACE -> 8 [] c = " " -> 32 [] c = "\"" -> 34 [] c = "," -> 44 [] c = "\\" -> 92
      [] c = "A" -> 65 [] c = "B" -> 66 [] c = "[" -> 91 [] c = "]" -> 93
      [] c = "a" -> 97 [] c = "b" -> 98

\* str.casefold on one character of the alphabet.
FoldChar(c) == CASE c = "A" -> "a" [] c = "B" -> "b" [] OTHER -> c

casefold(t) == [i \in DOMAIN t |-> FoldChar(t[i])]

IsSpace(c) == c = " "

RECURSIVE lstrip(_)
lstrip(t) == IF t # <<>> /\ IsSpace(Head(t)) THEN lstrip(Tail(t)) ELSE t

RECURSIVE rstrip(_)
rstrip(t) ==
    IF t # <<>> /\ IsSpace(t[Len(t)]) THEN rstrip(SubSeq(t, 1, Len(t) - 1)) ELSE t

strip(t) == rstrip(lstrip(t))

\* value.split(","): the pieces between commas, empty pieces included.
RECURSIVE SplitFrom(_, _, _)
SplitFrom(t, cur, acc) ==
    IF t = <<>> THEN Append(acc, cur)
    ELSE IF Head(t) = "," THEN SplitFrom(Tail(t), <<>>, Append(acc, cur))
    ELSE SplitFrom(Tail(t), Append(cur, Head(t)), acc)

split_comma(t) == SplitFrom(t, <<>>, <<>>)

\* Lexicographic comparison of two texts by a key on characters.
RECURSIVE TextLess(_, _)
TextLess(s, t) ==
    IF t = <<>> THEN FALSE
    ELSE IF s = <<>> THEN TRUE
    ELSE IF Code(Head(s)) # Code(Head(t)) THEN Code(Head(s)) < Code(Head(t))
    ELSE TextLess(Tail(s), Tail(t))

\* ORDER BY name COLLATE NOCASE: compares the ASCII case-folded texts.
NocaseLess(s, t) == TextLess(casefold(s), casefold(t))

NocaseEqual(s, t) == casefold(s) = casefold(t)

\* ------------------------------------------------------------------------
\* Skill choices: normalisation and the JSON text stored in builds.skill_choices
\* ------------------------------------------------------------------------

RECURSIVE NormalizeFrom(_, _, _)
NormalizeFrom(choices, seen, normalized) ==
    IF choices = <<>> THEN normalized
    ELSE LET text == strip(Head(choices))
             key == casefold(text)
         IN IF text = <<>> THEN NormalizeFrom(Tail(choices), seen, normalized)
            ELSE IF key \in seen THEN NormalizeFrom(Tail(choices), seen, normalized)
            ELSE NormalizeFrom(Tail(choices), seen \cup {key}, Append(normalized, text))

_normalize_skill_choices(choices) == NormalizeFrom(choices, {}, <<>>)

\* A JSON string body written without any escape.
JsonRaw(text) == text

\* json.dumps of the characters of a string: a quote and a backslash are
\* written after a backslash, U+0008 as \b.
RECURSIVE JsonEscape(_)
JsonEscape(text) ==
    IF text = <<>> THEN <<>>
    ELSE (CASE Head(text) \in {"\"", "\\"} -> <<"\\", Head(text)>>
            [] Head(text) = BACKSPACE -> <<"\\", "b">>
            [] OTHER -> <<Head(text)>>)
         \o JsonEscape(Tail(text))

\* json.dumps of a list of strings: ["a", "b"] with ", " between the items.
RECURSIVE JsonItems(_)
JsonItems(items) ==
    IF items = <<>> THEN <<>>
    ELSE <<"\"">> \o JsonEscape(Head(items)) \o <<"\"">>
         \o (IF Len(items) > 1 THEN <<",", " ">> ELSE <<>>)
         \o JsonItems(Tail(items))

json_dumps(items) == <<"[">> \o JsonItems(items) \o <<"]">>

_serialize_skill_choices(choices) == json_dumps(_normalize_skill_choices(choices))

\* json.loads on the texts of the alphabet: a list of strings, a lone string, or
\* a decode error.  The scanner reads the text left to right; `st` is what it
\* expects next; after a backslash inside a string it expects the escaped
\* character.  (No text of the model holds a nested list or a number.)

\* The character a JSON escape stands for; <<>> when the escape is not JSON.
JsonUnescape(c) ==
    CASE c \in {"\"", "\\"} -> <<c>>
      [] c = "b" -> <<BACKSPACE>>
      [] OTHER -> <<>>
JsonError == [ok |-> FALSE, list |-> FALSE, items |-> <<>>]

RECURSIVE JsonScan(_, _, _, _, _)
JsonScan(t, st, cur, items, isList) ==
    IF t = <<>>
    THEN IF st = "end" THEN [ok |-> TRUE, list |-> isList, items |-> items]
         ELSE JsonError
    ELSE LET c == Head(t)
             rest == Tail(t)
         IN CASE st = "start" ->
                   IF IsSpace(c) THEN JsonScan(rest, "start", cur, items, isList)
                   ELSE IF c = "[" THEN JsonScan(rest, "first", cur, items, TRUE)
                   ELSE IF c = "\"" THEN JsonScan(rest, "scalar", <<>>, items, FALSE)
                   ELSE JsonError
              [] st = "scalar" ->
                   IF c = "\"" THEN JsonScan(rest, "end", cur, items, FALSE)
                   ELSE IF c = "\\" THEN JsonScan(rest, "scalar_escape", cur, items, FALSE)
                   ELSE IF c = BACKSPACE THEN JsonError
                   ELSE JsonScan(rest, "scalar", Append(cur, c), items, FALSE)
              [] st \in {"scalar_escape", "string_escape"} ->
                   IF JsonUnescape(c) = <<>> THEN JsonError
                   ELSE JsonScan(rest, IF st = "scalar_escape" THEN "scalar" ELSE "string",
                                 cur \o JsonUnescape(c), items, isList)
              [] st = "first" ->
                   IF IsSpace(c) THEN JsonScan(rest, "first", cur, items, isList)
                   ELSE IF c = "]" THEN JsonScan(rest, "end", cur, items, isList)
                   ELSE IF c = "\"" THEN JsonScan(rest, "string", <<>>, items, isList)
                   ELSE JsonError
              [] st = "item" ->
                   IF IsSpace(c) THEN JsonScan(rest, "item", cur, items, isList)
                   ELSE IF c = "\"" THEN JsonScan(rest, "string", <<>>, items, isList)
                   ELSE JsonError
              [] st = "string" ->
                   IF c = "\"" THEN JsonScan(rest, "after", <<>>, Append(items, cur), isList)
                   ELSE IF c = "\\" THEN JsonScan(rest, "string_escape", cur, items, isList)
                   ELSE IF c = BACKSPACE THEN JsonError
                   ELSE JsonScan(rest, "string", Append(cur, c), items, isList)
              [] st = "after" ->
                   IF IsSpace(c) THEN JsonScan(rest, "after", cur, items, isList)
                   ELSE IF c = "," THEN JsonScan(rest, "item", cur, items, isList)
                   ELSE IF c = "]" THEN JsonScan(rest, "end", cur, items, isList)
                   ELSE JsonError
              [] st = "end" ->
                   IF IsSpace(c) THEN JsonScan(rest, "end", cur, items, isList)
                   ELSE JsonError

json_loads(t) == JsonScan(t, "start", <<>>, <<>>, FALSE)

_deserialize_skill_choices(value) ==
    IF value = NULL \/ value = EMPTY THEN <<>>
    ELSE LET data == json_loads(value)
         IN IF ~data.ok THEN _normalize_skill_choices(split_comma(value))
            ELSE IF data.list THEN _normalize_skill_choices(data.items)
            ELSE <<>>

\* ------------------------------------------------------------------------
\* schemas.py: the declared fields of the build models
\* ------------------------------------------------------------------------

BuildLevelBaseFields == {"level", "spells", "feats", "subclass_choice", "multiclass_choice"}

BuildLevelCreateFields == BuildLevelBaseFields

BuildLevelFields == BuildLevelBaseFields \cup {"id"}

BuildBaseFields == {"name", "race", "class_name", "subclass", "notes", "levels"}

BuildCreateFields == BuildBaseFields

BuildFields == BuildBaseFields \cup {"id"}

\* Constructing a pydantic model: the declared fields are kept, any other key
\* is ignored (the models set no `extra`, so pydantic's default applies).
PydanticModel(fields, kwargs) == [f \in fields \cap DOMAIN kwargs |-> kwargs[f]]

\* Attribute access on a model instance raises AttributeError for a name that
\* is not a field.
HasAttr(obj, attr) == attr \in DOMAIN obj

\* `value or ""`.
OrEmpty(value) == IF value = NULL \/ value = EMPTY THEN EMPTY ELSE value

\* The request body of POST/PUT /api/builds as FastAPI hands it to the handler:
\* the wire key `class` populates class_name, every level becomes a
\* BuildLevelCreate.
ValidateBuildCreate(body) ==
    PydanticModel(BuildCreateFields,
        [name |-> body.name, race |-> body.race, class_name |-> body.class,
         subclass |-> body.subclass, notes |-> body.notes,
         skill_choices |-> body.skill_choices,
         levels |-> [i \in DOMAIN body.levels |->
                        PydanticModel(BuildLevelCreateFields, body.levels[i])]])

\* schemas.py: level: int = Field(ge=1, le=12)
MinLevel == 1

MaxLevel == 12

\* A field constraint that accepts every number.
LevelInRangeAny(level) == TRUE

\* Field(ge=1, le=12)
LevelInRange(level) == MinLevel <= level /\ level <= MaxLevel

\* FastAPI validates the body against BuildCreate before it calls the handler.
Validates(body) == \A i \in DOMAIN body.levels : LevelInRange(body.levels[i].level)

\* ------------------------------------------------------------------------
\* State
\* ------------------------------------------------------------------------

VARIABLES
    builds,             \* rows of table builds (companion database)
    build_levels,       \* rows of table build_levels
    sqlite_sequence,    \* AUTOINCREMENT counters, by table
    items,              \* rows of table items
    enemies,            \* rows of table enemies
    not_null,           \* the <<table, column>> pairs declared NOT NULL
    races,              \* the races database: its tables, rows in rowid order
    reference,          \* the tables of the spells, backgrounds, feats and abilities databases
    schema_initialized, \* the database keys that database._SCHEMA_INITIALIZED holds
    level_columns,      \* PRAGMA table_info(build_levels): {} when there is no table
    pc,                 \* per request slot: the handler's position
    req,                \* per request slot: the request
    loc,                \* per request slot: the handler's local variables
    resp,               \* per request slot: the response
    hist,               \* per request slot: what the request saw and did (history)
    deleted             \* ids whose DELETE /api/builds/{id} has returned 204 (history)

dbvars == <<builds, build_levels, sqlite_sequence>>
lootvars == <<items, enemies, not_null, races, reference>>
schemavars == <<schema_initialized, level_columns>>
slotvars == <<pc, req, loc, resp, hist>>
vars == <<builds, build_levels, sqlite_sequence, items, enemies, not_null, races, reference,
          schema_initialized, level_columns, pc, req, loc, resp, hist, deleted>>

\* ------------------------------------------------------------------------
\* SQL statements on the build tables
\* ------------------------------------------------------------------------

\* The existence check that always finds a row.
SelectBuildIdAny(rows, build_id) == {build_id}

\* SELECT id FROM builds WHERE id = ?  (cursor.fetchone(): a row or None)

SelectBuildId(rows, build_id) == {row.id : row \in {b \in rows : b.id = build_id}}

\* SELECT ... FROM builds WHERE id = ?
SelectBuild(rows, build_id) == {b \in rows : b.id = build_id}

\* The level SELECT without its WHERE clause.
SelectLevelsAll(rows, build_id) == rows

\* SELECT ... FROM build_levels WHERE build_id = ?   (before ORDER BY)

SelectLevels(rows, build_id) == {l \in rows : l.build_id = build_id}

\* SELECT ... FROM build_levels WHERE build_id IN (...)
SelectLevelsIn(rows, build_ids) == {l \in rows : l.build_id \in build_ids}

\* The DELETE that removes no level row.
DeleteLevelsKeep(rows, build_id) == rows

\* DELETE FROM build_levels WHERE build_id = ?
DeleteLevelsOf(rows, build_id) == {l \in rows : l.build_id # build_id}

\* The DELETE that matches no row.
DeleteBuildKeep(rows, build_id) == rows

\* DELETE FROM builds WHERE id = ?

DeleteBuildOf(rows, build_id) == {b \in rows : b.id # build_id}

\* The orders a SELECT may return `rows` in under ORDER BY: every enumeration
\* in which no row precedes a row that sorts before it (SQL leaves the order
\* of ties open).
Orderings(rows, Before(_, _)) ==
    {s \in [1..Cardinality(rows) -> rows] :
        /\ \A i, j \in DOMAIN s : i # j => s[i] # s[j]
        /\ \A i, j \in DOMAIN s : i < j => ~Before(s[j], s[i])}

ByLevel(a, b) == a.level < b.level

ByNameNocase(a, b) == NocaseLess(a.name, b.name)

\* schemas.BuildLevel(...) of a level row.
BuildLevelOf(row) ==
    PydanticModel(BuildLevelFields,
        [id |-> row.id, level |-> row.level, spells |-> OrEmpty(row.spells),
         feats |-> OrEmpty(row.feats),
         subclass_choice |-> OrEmpty(row.subclass_choice),
         multiclass_choice |-> OrEmpty(row.multiclass_choice),
         note |-> OrEmpty(row.note)])

\* schemas.Build(...) of a build row and its ordered level rows.
BuildOf(build_row, level_rows) ==
    PydanticModel(BuildFields,
        [id |-> build_row.id, name |-> build_row.name, race |-> build_row.race,
         class_name |-> build_row.class, subclass |-> build_row.subclass,
         notes |-> build_row.notes,
         skill_choices |-> _deserialize_skill_choices(build_row.skill_choices),
         levels |-> [i \in DOMAIN level_rows |-> BuildLevelOf(level_rows[i])]])

\* grouped_levels[build_id] of list_builds: the level rows of one build, in the
\* order the query returned them.
RECURSIVE GroupOf(_, _)
GroupOf(level_rows, build_id) ==
    IF level_rows = <<>> THEN <<>>
    ELSE IF Head(level_rows).build_id = build_id
         THEN <<Head(level_rows)>> \o GroupOf(Tail(level_rows), build_id)
         ELSE GroupOf(Tail(level_rows), build_id)

\* ------------------------------------------------------------------------
\* The write transactions of create_build and update_build
\* ------------------------------------------------------------------------
\* A transaction works on db = [builds, build_levels, seq] and yields
\* [exc, db, new_id]: the exception that ended it ("none" when it committed) and
\* the database it leaves.  Whatever ends it without a commit leaves the
\* database as it was: _safe_rollback rolls back, and closing the connection
\* discards what an exception other than the two handled ones left uncommitted.

NoFault == [stmt |-> "none", n |-> 0]

Fault(stmt) == [stmt |-> stmt, n |-> 1]

\* INSERT INTO builds (...) VALUES (...)
InsertBuild(db, payload) ==
    LET new_id == db.seq.builds + 1
    IN [db EXCEPT
          !.builds = @ \cup {[id |-> new_id, name |-> payload.name,
                              race |-> payload.race, class |-> payload.class_name,
                              subclass |-> payload.subclass, notes |-> payload.notes,
                              skill_choices |->
                                  _serialize_skill_choices(payload.skill_choices)]},
          !.seq.builds = new_id]

\* INSERT INTO build_levels (...) VALUES (...)
InsertLevel(db, build_id, level) ==
    LET new_id == db.seq.build_levels + 1
    IN [db EXCEPT
          !.build_levels = @ \cup {[id |-> new_id, build_id |-> build_id,
                                    level |-> level.level,
                                    spells |-> OrEmpty(level.spells),
                                    feats |-> OrEmpty(level.feats),
                                    subclass_choice |-> OrEmpty(level.subclass_choice),
                                    multiclass_choice |-> OrEmpty(level.multiclass_choice),
                                    note |-> OrEmpty(level.note)]},
          !.seq.build_levels = new_id]

\* for level in payload.levels: conn.execute(INSERT INTO build_levels ...)
RECURSIVE InsertLevels(_, _, _, _, _)
InsertLevels(db, build_id, levels, k, fault) ==
    IF k > Len(levels) THEN [exc |-> "none", db |-> db]
    ELSE IF ~HasAttr(levels[k], "note") THEN [exc |-> "AttributeError", db |-> db]
    ELSE IF fault.stmt = "insert_level" /\ fault.n = k
         THEN [exc |-> "sqlite3.Error", db |-> db]
    ELSE InsertLevels(InsertLevel(db, build_id, levels[k]), build_id, levels, k + 1, fault)

\* create_build, from the INSERT INTO builds to conn.commit().
create_build_txn(db, payload, fault) ==
    IF ~HasAttr(payload, "skill_choices")
    THEN [exc |-> "AttributeError", db |-> db, new_id |-> 0]
    ELSE IF fault.stmt = "insert_build"
    THEN [exc |-> "sqlite3.Error", db |-> db, new_id |-> 0]
    ELSE IF fault.stmt = "lastrowid"
    THEN [exc |-> "HTTPException", db |-> db, new_id |-> 0]
    ELSE LET inserted == InsertBuild(db, payload)
             new_id == inserted.seq.builds
             looped == InsertLevels(inserted, new_id, payload.levels, 1, fault)
         IN IF looped.exc # "none"
            THEN [exc |-> looped.exc, db |-> db, new_id |-> 0]
            ELSE IF fault.stmt = "commit"
            THEN [exc |-> "sqlite3.Error", db |-> db, new_id |-> 0]
            ELSE [exc |-> "none", db |-> looped.db, new_id |-> new_id]

\* UPDATE builds SET name = ?, ... WHERE id = ?
UpdateBuildRow(db, build_id, payload) ==
    [db EXCEPT
       !.builds = {IF b.id = build_id
                   THEN [id |-> b.id, name |-> payload.name, race |-> payload.race,
                         class |-> payload.class_name, subclass |-> payload.subclass,
                         notes |-> payload.notes,
                         skill_choices |->
                             _serialize_skill_choices(payload.skill_choices)]
                   ELSE b : b \in @}]

\* update_build, from the UPDATE builds to conn.commit().
update_build_txn(db, build_id, payload, fault) ==
    IF ~HasAttr(payload, "skill_choices")
    THEN [exc |-> "AttributeError", db |-> db]
    ELSE IF fault.stmt = "update"
    THEN [exc |-> "sqlite3.Error", db |-> db]
    ELSE IF fault.stmt = "delete_levels"
    THEN [exc |-> "sqlite3.Error", db |-> db]
    ELSE LET updated == UpdateBuildRow(db, build_id, payload)
             reset == [updated EXCEPT !.build_levels = DeleteLevelsOf(@, build_id)]
             looped == InsertLevels(reset, build_id, payload.levels, 1, fault)
         IN IF looped.exc # "none"
            THEN [exc |-> looped.exc, db |-> db]
            ELSE IF fault.stmt = "commit"
            THEN [exc |-> "sqlite3.Error", db |-> db]
            ELSE [exc |-> "none", db |-> looped.db]

\* The calls of conn.commit() of a transaction that ended with exc: one when
\* the statements before it all succeeded, whether the commit then raised or not.
CommitCalls(exc, fault) ==
    IF exc = "none" \/ (exc = "sqlite3.Error" /\ fault.stmt = "commit") THEN 1 ELSE 0

\* The calls of _safe_rollback: one in `except HTTPException` and one in
\* `except sqlite3.Error`, none for an exception neither clause catches.
RollbackCalls(exc) == IF exc \in {"sqlite3.Error", "HTTPException"} THEN 1 ELSE 0

\* ------------------------------------------------------------------------
\* Responses
\* ------------------------------------------------------------------------

\* raise HTTPException(status_code, detail): a JSON body {"detail": ...}.
Http(status, detail) ==
    [status |-> status, detail |-> detail, exc |-> "HTTPException", body |-> <<>>]

\* An exception no handler catches: the server's plain 500.
Unhandled(exc) ==
    [status |-> 500, detail |-> "Internal Server Error", exc |-> exc, body |-> <<>>]

\* A returned value; body is the sequence of models returned.
Returned(status, body) ==
    [status |-> status, detail |-> "", exc |-> "none", body |-> body]

NoResponse == [status |-> 0, detail |-> "", exc |-> "none", body |-> <<>>]

\* FastAPI's answer to a body that fails validation; the handler is not called.
Unprocessable ==
    [status |-> 422, detail |-> "value out of range", exc |-> "RequestValidationError",
     body |-> <<>>]

\* What create_build / update_build / delete_build make of an exception.
Failure(exc, detail) ==
    IF exc \in {"sqlite3.Error", "HTTPException"} THEN Http(500, detail)
    ELSE Unhandled(exc)

\* ------------------------------------------------------------------------
\* Initial databases and request inputs
\* ------------------------------------------------------------------------

\* Largest build id a request names.
MaxBuildId == 2

BuildIds == 1..MaxBuildId

LevelRow(id, build_id, level, text) ==
    [id |-> id, build_id |-> build_id, level |-> level, spells |-> text,
     feats |-> NULL, subclass_choice |-> EMPTY, multiclass_choice |-> NULL,
     note |-> text]

\* The companion database as a process finds it.  Rows 1 and 2 were written
\* by an earlier run or another tool: build 1 holds a JSON list that is not
\* normalised and levels out of order with a duplicate level number, build 2
\* a comma-separated list and one level.
SeedTwoBuilds ==
    [builds |-> {[id |-> 1, name |-> <<"b">>, race |-> NULL, class |-> <<"a">>,
                  subclass |-> NULL, notes |-> <<"b">>,
                  skill_choices |-> <<"[", "\"", "a", " ", "\"", ",", "\"", "A", "\"", "]">>],
                 [id |-> 2, name |-> <<"A">>, race |-> <<"a">>, class |-> NULL,
                  subclass |-> NULL, notes |-> NULL,
                  skill_choices |-> <<"b", ",", " ", "B", ",", ",", "a">>]},
     build_levels |-> {LevelRow(1, 1, MaxLevelNo, <<"a">>), LevelRow(2, 1, 1, NULL),
                       LevelRow(3, 1, 1, <<"b">>), LevelRow(4, 2, 1, NULL)},
     seq |-> [builds |-> 2, build_levels |-> 4]]

\* Build 2 was never created.
SeedOneBuild ==
    [builds |-> {[id |-> 1, name |-> <<"B">>, race |-> NULL, class |-> NULL,
                  subclass |-> <<"a">>, notes |-> NULL, skill_choices |-> NULL]},
     build_levels |-> {LevelRow(1, 1, MaxLevelNo, <<"a">>), LevelRow(2, 1, 1, <<"b">>)},
     seq |-> [builds |-> 1, build_levels |-> 2]]

Seeds == {SeedTwoBuilds, SeedOneBuild}

LevelBody(level) ==
    [level |-> level, spells |-> <<"a">>, feats |-> NULL, subclass_choice |-> EMPTY,
     multiclass_choice |-> NULL, note |-> <<"b">>]

\* The level numbers of a request body: none, or out of order with a duplicate.
LevelLists == {<<>>, <<MaxLevelNo, 1, 1>>}

\* Bodies of POST /api/builds and PUT /api/builds/{id}.
BuildBodies ==
    {[name |-> <<"a">>, race |-> NULL, class |-> <<"B">>, subclass |-> NULL,
      notes |-> <<"a">>,
      skill_choices |-> <<<<" ", "a">>, <<"A">>, <<>>, <<"b", " ">>>>,
      levels |-> [i \in DOMAIN ls |-> LevelBody(ls[i])]] : ls \in LevelLists}

CreateFaults(body) ==
    {NoFault} \cup {Fault(s) : s \in {"connect", "insert_build", "lastrowid", "commit",
                                      "fetch_build", "fetch_levels"}}
    \cup {[stmt |-> "insert_level", n |-> k] : k \in {1, Len(body.levels)} \ {0}}

UpdateFaults(body) ==
    {NoFault} \cup {Fault(s) : s \in {"connect", "select", "update", "delete_levels",
                                      "commit", "fetch_build", "fetch_levels"}}
    \cup {[stmt |-> "insert_level", n |-> k] : k \in {1, Len(body.levels)} \ {0}}

DeleteFaults == {NoFault, Fault("delete_levels"), Fault("delete_build")}

LoadFaults == {NoFault, Fault("fetch_build"), Fault("fetch_levels")}

\* conftest.py: CREATE TABLE items (... name TEXT NOT NULL, ...
\* is_collected INTEGER NOT NULL DEFAULT 0).
ItemsNotNull == {<<"items", "name">>, <<"items", "is_collected">>}

NoBody == [name |-> EMPTY]

NoLocals ==
    [existing |-> {}, build_row |-> <<>>, build_rows |-> <<>>, new_id |-> 0,
     conn |-> "none", columns |-> {}, committed |-> FALSE, commits |-> 0, rollbacks |-> 0,
     value |-> NULL]

NoSnapshot == [builds |-> {}, build_levels |-> {}]

\* What a request saw and did: `changed`, a statement of the request changed a
\* row; `disturbed`, a statement of another request changed a row while this
\* one was in flight; `vacant`, no row of either table carried the request's id
\* when it began; `gone`, the ids already deleted when it began; `absent`,
\* update_build's existence check ran and no build row carried the id;
\* `old_levels`, the ids of the level rows of the build at that check;
\* `old_row`, the row a sparse update was about to write, as it then was;
\* `first` and `second`, the tables as they were at the two reads of a load.
NoHistory ==
    [changed |-> FALSE, disturbed |-> FALSE, vacant |-> FALSE, gone |-> {},
     absent |-> FALSE, old_levels |-> {}, old_row |-> {}, first |-> NoSnapshot, second |-> NoSnapshot]

NoRequest == [op |-> "none", id |-> 0, body |-> NoBody, fault |-> NoFault]

Snapshot == [builds |-> builds, build_levels |-> build_levels]

\* The tables list_spells, list_backgrounds, list_feats and list_abilities read.
ReferenceTables ==
    {"Spells", "Spell_Properties",
     "Backgrounds", "Background_Skills", "Background_Characters", "Background_Notes",
     "Feats", "Feat_Options", "Feat_Notes",
     "Abilities", "Ability_Uses", "Ability_Checks", "Ability_Check_Skills", "Ability_Saves"}

\* Those tables with no row.
NoReference == [t \in ReferenceTables |-> {}]

\* The races database with no row in any of its four tables.
NoRaces == [races |-> {}, subraces |-> {}, racial_features |-> {}, subrace_features |-> {}]

\* test_builds.py: the columns of CREATE TABLE build_levels.
LevelColumns ==
    {"id", "build_id", "level", "spells", "feats", "subclass_choice", "multiclass_choice",
     "note"}

Database == [builds |-> builds, build_levels |-> build_levels, seq |-> sqlite_sequence]

Init ==
    /\ \E seed \in Seeds :
          /\ builds = seed.builds
          /\ build_levels = seed.build_levels
          /\ sqlite_sequence = seed.seq
    /\ items = {}
    /\ enemies = {}
    /\ not_null = ItemsNotNull
    /\ races = NoRaces
    /\ reference = NoReference
    /\ schema_initialized = {}
    /\ level_columns \in {LevelColumns \ {"note"}, LevelColumns}
    /\ pc = [r \in Reqs |-> "idle"]
    /\ req = [r \in Reqs |-> NoRequest]
    /\ loc = [r \in Reqs |-> NoLocals]
    /\ resp = [r \in Reqs |-> NoResponse]
    /\ hist = [r \in Reqs |-> NoHistory]
    /\ deleted = {}

\* ------------------------------------------------------------------------
\* database.py: get_connection
\* ------------------------------------------------------------------------

\* get_connection("companion"): the first connection of the process runs
\* _ensure_companion_schema, which adds build_levels.note when it is missing.
Connected ==
    /\ schema_initialized' = schema_initialized \cup {"companion"}
    /\ level_columns' = IF "companion" \in schema_initialized \/ level_columns = {}
                        THEN level_columns
                        ELSE level_columns \cup {"note"}

\* ------------------------------------------------------------------------
\* Requests
\* ------------------------------------------------------------------------

Begin(r, request, at) ==
    /\ req' = [req EXCEPT ![r] = request]
    /\ pc' = [pc EXCEPT ![r] = at]
    /\ hist' = [hist EXCEPT ![r] =
                   [NoHistory EXCEPT
                       !.gone = deleted,
                       !.vacant = /\ \A b \in builds : b.id # request.id
                                  /\ \A l \in build_levels : l.build_id # request.id]]
    /\ UNCHANGED <<dbvars, lootvars, schemavars, loc, resp, deleted>>

Respond(r, response) ==
    /\ resp' = [resp EXCEPT ![r] = response]
    /\ pc' = [pc EXCEPT ![r] = "done"]

Goto(r, at) ==
    /\ pc' = [pc EXCEPT ![r] = at]
    /\ UNCHANGED resp

\* The database after this step, and the note that the request changed it.
Store(r, db) ==
    /\ builds' = db.builds
    /\ build_levels' = db.build_levels
    /\ sqlite_sequence' = db.seq
    /\ hist' = [q \in Reqs |->
                   IF q = r THEN [hist[q] EXCEPT !.changed = @ \/ db # Database]
                   ELSE [hist[q] EXCEPT
                            !.disturbed = @ \/ (pc[q] \notin {"idle", "done"} /\ db # Database)]]

SlotBodies(r) ==
    IF r \in FullSlots THEN BuildBodies
    ELSE {b \in BuildBodies : b.levels = <<>>}

SlotFaults(r, faults) == IF r \in FullSlots THEN faults ELSE {NoFault}

StartCreate(r) ==
    /\ pc[r] = "idle"
    /\ \E body \in SlotBodies(r) : \E fault \in SlotFaults(r, CreateFaults(body)) :
           Begin(r, [op |-> "create_build", id |-> 0, body |-> body, fault |-> fault], "create")

StartUpdate(r) ==
    /\ pc[r] = "idle"
    /\ \E id \in BuildIds : \E body \in SlotBodies(r) :
       \E fault \in SlotFaults(r, UpdateFaults(body)) :
           Begin(r, [op |-> "update_build", id |-> id, body |-> body, fault |-> fault],
                 "update_check")

StartDelete(r) ==
    /\ pc[r] = "idle"
    /\ \E id \in BuildIds : \E fault \in SlotFaults(r, DeleteFaults) :
           Begin(r, [op |-> "delete_build", id |-> id, body |-> NoBody, fault |-> fault],
                 "delete_levels")

StartGet(r) ==
    /\ pc[r] = "idle"
    /\ \E id \in BuildIds : \E fault \in SlotFaults(r, LoadFaults) :
           Begin(r, [op |-> "get_build", id |-> id, body |-> NoBody, fault |-> fault],
                 "load_row")

StartList(r) ==
    /\ pc[r] = "idle"
    /\ \E fault \in SlotFaults(r, LoadFaults) :
           Begin(r, [op |-> "list_builds", id |-> 0, body |-> NoBody, fault |-> fault],
                 "list_rows")

\* The response has been sent; the slot takes the next request.
Finish(r) ==
    /\ pc[r] = "done"
    /\ pc' = [pc EXCEPT ![r] = "idle"]
    /\ req' = [req EXCEPT ![r] = NoRequest]
    /\ loc' = [loc EXCEPT ![r] = NoLocals]
    /\ resp' = [resp EXCEPT ![r] = NoResponse]
    /\ hist' = [hist EXCEPT ![r] = NoHistory]
    /\ UNCHANGED <<dbvars, lootvars, schemavars, deleted>>

\* ------------------------------------------------------------------------
\* main.py: create_build, update_build, delete_build
\* ------------------------------------------------------------------------

\* POST /api/builds: get_connection, then the transaction.  The reload that
\* follows a commit is LoadBuildRow / LoadLevelRows.
CreateBuild(r) ==
    /\ pc[r] = "create"
    /\ LET fault == req[r].fault
           payload == ValidateBuildCreate(req[r].body)
           txn == create_build_txn(Database, payload, fault)
       IN IF ~Validates(req[r].body)
          THEN /\ Respond(r, Unprocessable)
               /\ UNCHANGED <<dbvars, schemavars, loc, hist>>
          ELSE IF fault.stmt = "connect"
          THEN /\ Respond(r, Http(500, "Failed to create build"))
               /\ UNCHANGED <<dbvars, schemavars, loc, hist>>
          ELSE /\ Connected
               /\ Store(r, txn.db)
               /\ loc' = [loc EXCEPT ![r].new_id = txn.new_id,
                                     ![r].commits = CommitCalls(txn.exc, fault),
                                     ![r].rollbacks = RollbackCalls(txn.exc)]
               /\ IF txn.exc = "none"
                  THEN Goto(r, "load_row")
                  ELSE Respond(r, Failure(txn.exc, "Failed to create build"))
    /\ UNCHANGED <<req, lootvars, deleted>>

\* PUT /api/builds/{id}: get_connection and SELECT id FROM builds WHERE id = ?.
\* The SELECT opens no transaction; the connection stays open for the writes.
UpdateBuildCheck(r) ==
    /\ pc[r] = "update_check"
    /\ LET fault == req[r].fault
           existing == SelectBuildId(builds, req[r].id)
       IN IF ~Validates(req[r].body)
          THEN /\ Respond(r, Unprocessable)
               /\ UNCHANGED <<schemavars, loc, hist>>
          ELSE IF fault.stmt = "connect"
          THEN /\ Respond(r, Http(500, "Failed to update build"))
               /\ UNCHANGED <<schemavars, loc, hist>>
          ELSE /\ Connected
               /\ IF fault.stmt = "select"
                  THEN /\ Respond(r, Http(500, "Failed to update build"))
                       /\ loc' = [loc EXCEPT ![r].rollbacks = RollbackCalls("sqlite3.Error")]
                       /\ UNCHANGED hist
                  ELSE /\ loc' = [loc EXCEPT
                                     ![r].existing = existing,
                                     ![r].rollbacks = IF existing = {}
                                                      THEN RollbackCalls("HTTPException")
                                                      ELSE 0]
                       /\ hist' = [hist EXCEPT
                                      ![r].absent = ~(\E b \in builds : b.id = req[r].id),
                                      ![r].old_levels =
                                          {l.id : l \in {x \in build_levels :
                                                            x.build_id = req[r].id}}]
                       /\ IF existing = {}
                          THEN Respond(r, Http(404, "Build not found"))
                          ELSE Goto(r, "update_write")
    /\ UNCHANGED <<dbvars, req, lootvars, deleted>>

\* PUT /api/builds/{id}: from the UPDATE builds to conn.commit().
UpdateBuildWrite(r) ==
    /\ pc[r] = "update_write"
    /\ LET payload == ValidateBuildCreate(req[r].body)
           txn == update_build_txn(Database, req[r].id, payload, req[r].fault)
       IN /\ Store(r, txn.db)
          /\ loc' = [loc EXCEPT ![r].commits = CommitCalls(txn.exc, req[r].fault),
                                ![r].rollbacks = RollbackCalls(txn.exc)]
          /\ IF txn.exc = "none"
             THEN Goto(r, "load_row")
             ELSE Respond(r, Failure(txn.exc, "Failed to update build"))
    /\ UNCHANGED <<req, lootvars, schemavars, deleted>>

\* DELETE /api/builds/{id}, first execute(): DELETE FROM build_levels, committed.
DeleteLevels(r) ==
    /\ pc[r] = "delete_levels"
    /\ IF req[r].fault.stmt = "delete_levels"
       THEN /\ Respond(r, Http(500, "Failed to delete build"))
            /\ UNCHANGED <<dbvars, schemavars, hist>>
       ELSE /\ Connected
            /\ Store(r, [Database EXCEPT
                            !.build_levels = DeleteLevelsOf(@, req[r].id)])
            /\ Goto(r, "delete_row")
    /\ UNCHANGED <<req, loc, lootvars, deleted>>

\* DELETE /api/builds/{id}, second execute(): DELETE FROM builds, committed.
DeleteBuildRow(r) ==
    /\ pc[r] = "delete_row"
    /\ IF req[r].fault.stmt = "delete_build"
       THEN /\ Respond(r, Http(500, "Failed to delete build"))
            /\ UNCHANGED <<dbvars, schemavars, hist, deleted>>
       ELSE /\ Connected
            /\ Store(r, [Database EXCEPT !.builds = DeleteBuildOf(@, req[r].id)])
            /\ Respond(r, Returned(204, <<>>))
            /\ deleted' = deleted \cup {req[r].id}
    /\ UNCHANGED <<req, loc, lootvars>>

\* ------------------------------------------------------------------------
\* main.py: _load_build (get_build, and the reload of create and update)
\* ------------------------------------------------------------------------

LoadId(r) == IF req[r].op = "create_build" THEN loc[r].new_id ELSE req[r].id

\* A sqlite3.Error out of _load_build: create_build and update_build turn it
\* into their 500, get_build does not catch it.
LoadFailure(r) ==
    CASE req[r].op = "create_build" -> Http(500, "Failed to create build")
      [] req[r].op = "update_build" -> Http(500, "Failed to update build")
      [] OTHER -> Unhandled("sqlite3.Error")

LoadStatus(r) == IF req[r].op = "create_build" THEN 201 ELSE 200

\* fetch_one(SELECT ... FROM builds WHERE id = ?)
LoadBuildRow(r) ==
    /\ pc[r] = "load_row"
    /\ IF req[r].fault.stmt = "fetch_build"
       THEN /\ Respond(r, LoadFailure(r))
            /\ UNCHANGED <<schemavars, loc, hist>>
       ELSE /\ Connected
            /\ LET found == SelectBuild(builds, LoadId(r))
               IN IF found = {}
                  THEN /\ Respond(r, Http(404, "Build not found"))
                       /\ UNCHANGED <<loc, hist>>
                  ELSE /\ \E build_row \in found :
                              loc' = [loc EXCEPT ![r].build_row = <<build_row>>]
                       /\ hist' = [hist EXCEPT ![r].first = Snapshot]
                       /\ Goto(r, "load_levels")
    /\ UNCHANGED <<dbvars, req, lootvars, deleted>>

\* fetch_all(SELECT ... FROM build_levels WHERE build_id = ? ORDER BY level)
\* and the construction of the Build.
LoadLevelRows(r) ==
    /\ pc[r] = "load_levels"
    /\ IF req[r].fault.stmt = "fetch_levels"
       THEN /\ Respond(r, LoadFailure(r))
            /\ UNCHANGED <<schemavars, hist>>
       ELSE /\ Connected
            /\ \E level_rows \in Orderings(SelectLevels(build_levels, LoadId(r)), ByLevel) :
                  Respond(r, Returned(LoadStatus(r),
                                      <<BuildOf(loc[r].build_row[1], level_rows)>>))
            /\ hist' = [hist EXCEPT ![r].second = Snapshot]
    /\ UNCHANGED <<dbvars, req, loc, lootvars, deleted>>

\* ------------------------------------------------------------------------
\* main.py: list_builds
\* ------------------------------------------------------------------------

\* fetch_all(SELECT ... FROM builds ORDER BY name COLLATE NOCASE)
ListBuildRows(r) ==
    /\ pc[r] = "list_rows"
    /\ IF req[r].fault.stmt = "fetch_build"
       THEN /\ Respond(r, Unhandled("sqlite3.Error"))
            /\ UNCHANGED <<schemavars, loc, hist>>
       ELSE /\ Connected
            /\ hist' = [hist EXCEPT ![r].first = Snapshot]
            /\ \E build_rows \in Orderings(builds, ByNameNocase) :
                  IF build_rows = <<>>
                  THEN /\ Respond(r, Returned(200, <<>>))
                       /\ UNCHANGED loc
                  ELSE /\ loc' = [loc EXCEPT ![r].build_rows = build_rows]
                       /\ Goto(r, "list_levels")
    /\ UNCHANGED <<dbvars, req, lootvars, deleted>>

\* fetch_all(SELECT ... FROM build_levels WHERE build_id IN (...) ORDER BY level),
\* the grouping by build_id and the construction of the Builds.
ListLevelRows(r) ==
    /\ pc[r] = "list_levels"
    /\ IF req[r].fault.stmt = "fetch_levels"
       THEN /\ Respond(r, Unhandled("sqlite3.Error"))
            /\ UNCHANGED <<schemavars, hist>>
       ELSE /\ Connected
            /\ LET build_rows == loc[r].build_rows
                   build_ids == {build_rows[i].id : i \in DOMAIN build_rows}
               IN \E level_rows \in Orderings(SelectLevelsIn(build_levels, build_ids), ByLevel) :
                     Respond(r, Returned(200,
                         [i \in DOMAIN build_rows |->
                             BuildOf(build_rows[i], GroupOf(level_rows, build_rows[i].id))]))
            /\ hist' = [hist EXCEPT ![r].second = Snapshot]
    /\ UNCHANGED <<dbvars, req, loc, lootvars, deleted>>

\* ------------------------------------------------------------------------
\* The build requests
\* ------------------------------------------------------------------------

Next ==
    \E r \in Reqs :
        \/ StartCreate(r)
        \/ StartUpdate(r)
        \/ StartDelete(r)
        \/ StartGet(r)
        \/ StartList(r)
        \/ CreateBuild(r)
        \/ UpdateBuildCheck(r)
        \/ UpdateBuildWrite(r)
        \/ DeleteLevels(r)
        \/ DeleteBuildRow(r)
        \/ LoadBuildRow(r)
        \/ LoadLevelRows(r)
        \/ ListBuildRows(r)
        \/ ListLevelRows(r)
        \/ Finish(r)

Spec == Init /\ [][Next]_vars

\* ------------------------------------------------------------------------
\* Loot items and enemies: values, schemas, statements
\* ------------------------------------------------------------------------

\* A column or a JSON member holds a text, NULL (None), an integer or a
\* boolean: integers are written <<"0">>, <<"1">> and booleans as Python
\* prints them, so that every value compares with every other.
SqlInt(n) == IF n = 0 THEN <<"0">> ELSE <<"1">>

PyTrue == <<"T", "r", "u", "e">>

PyFalse == <<"F", "a", "l", "s", "e">>

\* int(value) of a bool.
int(value) == IF value = PyTrue THEN SqlInt(1) ELSE IF value = PyFalse THEN SqlInt(0) ELSE value

\* bool(value): None, 0 and the empty string are false.
bool(value) == IF value \in {NULL, SqlInt(0), EMPTY} THEN PyFalse ELSE PyTrue

\* A read that hands the stored integer on as it is.
_boolify_skipped(row, field) == row

_boolify(row, field) ==
    IF field \in DOMAIN row THEN [row EXCEPT ![field] = bool(@)] ELSE row

LootItemUpdateFields == {"name", "type", "region", "description", "is_collected"}

EnemyUpdateFields == {"name", "stats", "resistances", "weaknesses", "abilities", "notes"}

LootItemFields == {"id", "name", "type", "region", "description", "is_collected"}

EnemyFields == {"id", "name", "stats", "resistances", "weaknesses", "abilities", "notes"}

\* The table a request works on, and the words of its responses.
TableOf(op) == IF op \in {"update_loot_item", "delete_loot_item"} THEN "items" ELSE "enemies"

Rows(table) == IF table = "items" THEN items ELSE enemies

NotFound(table) == IF table = "items" THEN "Loot item not found" ELSE "Enemy not found"

UpdateFailed(table) ==
    IF table = "items" THEN "Failed to update loot item" ELSE "Failed to update enemy"

DeleteFailed(table) ==
    IF table = "items" THEN "Failed to delete loot item" ELSE "Failed to delete enemy"

\* payload.model_dump(): every field of the model, None where none was sent.
model_dump(fields, body) ==
    [f \in fields |-> IF f \in DOMAIN body THEN body[f] ELSE NULL]

\* payload.model_dump(exclude_unset=True): the fields the request carried.
model_dump_exclude_unset(fields, body) ==
    [f \in fields \cap DOMAIN body |-> body[f]]

\* update_loot_item: is_collected goes to the database as 0 or 1.
LootUpdates(table, body) ==
    LET updates == model_dump_exclude_unset(
                       IF table = "items" THEN LootItemUpdateFields ELSE EnemyUpdateFields,
                       body)
    IN IF table = "items" /\ "is_collected" \in DOMAIN updates
                          /\ updates["is_collected"] # NULL
       THEN [updates EXCEPT !["is_collected"] = int(@)]
       ELSE updates

\* A SELECT whose WHERE clause matches every row.
SelectRowAny(rows, id) == rows

\* SELECT ... FROM <table> WHERE id = ?
SelectRow(rows, id) == {row \in rows : row.id = id}

\* UPDATE <table> SET <field> = ?, ... WHERE id = ? raises IntegrityError
\* when a NOT NULL column of a matching row would become NULL.
ViolatesNotNull(table, rows, id, updates) ==
    /\ SelectRow(rows, id) # {}
    /\ \E c \in DOMAIN updates : <<table, c>> \in not_null /\ updates[c] = NULL

UpdateRow(rows, id, updates) ==
    {IF row.id = id
     THEN [c \in DOMAIN row |-> IF c \in DOMAIN updates THEN updates[c] ELSE row[c]]
     ELSE row : row \in rows}

\* DELETE FROM <table> WHERE id = ?
DeleteRow(rows, id) == {row \in rows : row.id # id}

\* schemas.LootItem(**row) / schemas.Enemy(**row): name is a str.
ValidLootModel(row) == row.name # NULL

MaxRowId == 2

RowIds == 1..MaxRowId

NewText == <<"a", "b">>

ItemRow(id, name, text, is_collected) ==
    [id |-> id, name |-> name, type |-> text, region |-> text, description |-> text,
     is_collected |-> SqlInt(is_collected)]

EnemyRow(id, name, text) ==
    [id |-> id, name |-> name, stats |-> text, resistances |-> text,
     weaknesses |-> text, abilities |-> text, notes |-> text]

\* conftest.py seeds two items, the second with a NULL description.
SeedItems ==
    {ItemRow(id, IF id = 1 THEN <<"A">> ELSE <<"b">>, IF id = 1 THEN <<"a">> ELSE NULL,
             IF id = 1 THEN 0 ELSE 1) : id \in RowIds}

SeedEnemies ==
    {EnemyRow(id, IF id = 1 THEN <<"B">> ELSE <<"a">>, IF id = 1 THEN <<"b">> ELSE NULL)
        : id \in RowIds}

\* The JSON objects of a PUT: each field absent, null or set.
Supplied(table, field) ==
    IF field = "is_collected" THEN {NULL, PyTrue, PyFalse}
    ELSE IF field \in {"name", "description", "notes"} THEN {NULL, NewText}
    ELSE {NewText}

SparseBodies(table) ==
    LET fields == IF table = "items" THEN LootItemUpdateFields ELSE EnemyUpdateFields
    IN {body \in UNION {[S -> {NULL, NewText, PyTrue, PyFalse}] : S \in SUBSET fields} :
           \A f \in DOMAIN body : body[f] \in Supplied(table, f)}

SparseFaults == {NoFault, Fault("fetch_existing"), Fault("update"), Fault("reload")}

InitLoot ==
    /\ builds = {}
    /\ build_levels = {}
    /\ sqlite_sequence = [builds |-> 0, build_levels |-> 0]
    /\ items = SeedItems
    /\ enemies = SeedEnemies
    /\ not_null = ItemsNotNull
    /\ races = NoRaces
    /\ reference = NoReference
    /\ schema_initialized = {}
    /\ level_columns = {}
    /\ pc = [r \in Reqs |-> "idle"]
    /\ req = [r \in Reqs |-> NoRequest]
    /\ loc = [r \in Reqs |-> NoLocals]
    /\ resp = [r \in Reqs |-> NoResponse]
    /\ hist = [r \in Reqs |-> NoHistory]
    /\ deleted = {}

\* ------------------------------------------------------------------------
\* main.py: update_loot_item, update_enemy, delete_loot_item, delete_enemy
\* ------------------------------------------------------------------------

StartSparseUpdate(r) ==
    /\ pc[r] = "idle"
    /\ r \in FullSlots
    /\ \E table \in {"items", "enemies"} : \E id \in RowIds :
       \E body \in SparseBodies(table) : \E fault \in SparseFaults :
           Begin(r, [op |-> IF table = "items" THEN "update_loot_item" ELSE "update_enemy",
                     id |-> id, body |-> body, fault |-> fault],
                 "sparse_check")

StartDeleteRow(r) ==
    /\ pc[r] = "idle"
    /\ \E table \in {"items", "enemies"} : \E id \in RowIds :
       \E fault \in SlotFaults(r, {NoFault, Fault("delete")}) :
           Begin(r, [op |-> IF table = "items" THEN "delete_loot_item" ELSE "delete_enemy",
                     id |-> id, body |-> NoBody, fault |-> fault],
                 "delete_row")

\* fetch_one: SELECT id FROM <table> WHERE id = ?
SparseCheck(r) ==
    /\ pc[r] = "sparse_check"
    /\ LET table == TableOf(req[r].op)
       IN IF req[r].fault.stmt = "fetch_existing"
          THEN /\ Respond(r, Http(500, UpdateFailed(table)))
               /\ UNCHANGED schemavars
          ELSE /\ Connected
               /\ IF SelectRow(Rows(table), req[r].id) = {}
                  THEN Respond(r, Http(404, NotFound(table)))
                  ELSE Goto(r, "sparse_write")
    /\ UNCHANGED <<dbvars, lootvars, req, loc, hist, deleted>>

\* updates = payload.model_dump(exclude_unset=True); if updates: execute(UPDATE).
SparseWrite(r) ==
    /\ pc[r] = "sparse_write"
    /\ LET table == TableOf(req[r].op)
           id == req[r].id
           rows == Rows(table)
           updates == LootUpdates(table, req[r].body)
           written == UpdateRow(rows, id, updates)
       IN /\ hist' = [hist EXCEPT ![r].old_row = SelectRow(rows, id)]
          /\ IF DOMAIN updates = {}
             THEN /\ Goto(r, "sparse_reload")
                  /\ UNCHANGED <<items, enemies, schemavars>>
             ELSE IF req[r].fault.stmt = "update"
             THEN /\ Respond(r, Http(500, UpdateFailed(table)))
                  /\ UNCHANGED <<items, enemies, schemavars>>
             ELSE IF ViolatesNotNull(table, rows, id, updates)
             THEN /\ Connected
                  /\ Respond(r, Http(500, UpdateFailed(table)))
                  /\ UNCHANGED <<items, enemies>>
             ELSE /\ Connected
                  /\ items' = IF table = "items" THEN written ELSE items
                  /\ enemies' = IF table = "enemies" THEN written ELSE enemies
                  /\ Goto(r, "sparse_reload")
    /\ UNCHANGED <<dbvars, not_null, races, reference, req, loc, deleted>>

\* fetch_one: SELECT id, name, ... FROM <table> WHERE id = ?, then the model.
SparseReload(r) ==
    /\ pc[r] = "sparse_reload"
    /\ LET table == TableOf(req[r].op)
           found == SelectRow(Rows(table), req[r].id)
           row == CHOOSE one \in found : TRUE
       IN IF req[r].fault.stmt = "reload"
          THEN /\ Respond(r, Http(500, UpdateFailed(table)))
               /\ UNCHANGED schemavars
          ELSE /\ Connected
               /\ IF found = {} THEN Respond(r, Http(404, NotFound(table)))
                  ELSE IF ~ValidLootModel(row) THEN Respond(r, Unhandled("ValidationError"))
                  ELSE IF table = "items"
                  THEN Respond(r, Returned(200,
                           <<PydanticModel(LootItemFields, _boolify(row, "is_collected"))>>))
                  ELSE Respond(r, Returned(200, <<PydanticModel(EnemyFields, row)>>))
    /\ UNCHANGED <<dbvars, lootvars, req, loc, hist, deleted>>

\* execute: DELETE FROM <table> WHERE id = ?
DeleteRowStep(r) ==
    /\ pc[r] = "delete_row"
    /\ LET table == TableOf(req[r].op)
           kept == DeleteRow(Rows(table), req[r].id)
       IN IF req[r].fault.stmt = "delete"
          THEN /\ Respond(r, Http(500, DeleteFailed(table)))
               /\ UNCHANGED <<items, enemies, schemavars>>
          ELSE /\ Connected
               /\ items' = IF table = "items" THEN kept ELSE items
               /\ enemies' = IF table = "enemies" THEN kept ELSE enemies
               /\ Respond(r, Returned(204, <<>>))
    /\ UNCHANGED <<dbvars, not_null, races, reference, req, loc, hist, deleted>>

NextLoot ==
    \E r \in Reqs :
        \/ StartSparseUpdate(r)
        \/ StartDeleteRow(r)
        \/ SparseCheck(r)
        \/ SparseWrite(r)
        \/ SparseReload(r)
        \/ DeleteRowStep(r)

SpecLoot == InitLoot /\ [][NextLoot]_vars

\* ------------------------------------------------------------------------
\* POST and PUT /api/builds with level numbers at and beyond the limits
\* ------------------------------------------------------------------------

\* Level numbers at the two limits of Field(ge=1, le=12) and one beyond each.
LimitLevels == {MinLevel - 1, MinLevel, MaxLevel, MaxLevel + 1}

\* Bodies with one level, or with a level in range before one that is not.
LimitBodies ==
    {[name |-> <<"a">>, race |-> NULL, class |-> <<"B">>, subclass |-> NULL,
      notes |-> <<"a">>, skill_choices |-> <<<<"a">>>>,
      levels |-> [i \in DOMAIN ls |-> LevelBody(ls[i])]] :
        ls \in {<<n>> : n \in LimitLevels} \cup {<<MinLevel, MaxLevel + 1>>}}

LimitSlotBodies(r) ==
    IF r \in FullSlots THEN LimitBodies
    ELSE {b \in LimitBodies : Len(b.levels) = 2}

StartCreateLimit(r) ==
    /\ pc[r] = "idle"
    /\ \E body \in LimitSlotBodies(r) : \E fault \in SlotFaults(r, {NoFault, Fault("connect")}) :
           Begin(r, [op |-> "create_build", id |-> 0, body |-> body, fault |-> fault], "create")

StartUpdateLimit(r) ==
    /\ pc[r] = "idle"
    /\ \E id \in BuildIds : \E body \in LimitSlotBodies(r) :
       \E fault \in SlotFaults(r, {NoFault, Fault("connect")}) :
           Begin(r, [op |-> "update_build", id |-> id, body |-> body, fault |-> fault],
                 "update_check")

NextLimit ==
    \E r \in Reqs :
        \/ StartCreateLimit(r)
        \/ StartUpdateLimit(r)
        \/ StartDelete(r)
        \/ CreateBuild(r)
        \/ UpdateBuildCheck(r)
        \/ UpdateBuildWrite(r)
        \/ DeleteLevels(r)
        \/ DeleteBuildRow(r)
        \/ Finish(r)

\* Create, Replace and Delete requests with level numbers around the limits.
SpecLimit == Init /\ [][NextLimit]_vars

\* ------------------------------------------------------------------------
\* Two requests on /api/builds, one in each thread, from one known database
\* ------------------------------------------------------------------------

InitSerial ==
    /\ Init
    /\ Database = SeedTwoBuilds

NextSerial ==
    \E r \in Reqs :
        \/ StartCreate(r)
        \/ StartUpdate(r)
        \/ StartDelete(r)
        \/ StartGet(r)
        \/ StartList(r)
        \/ CreateBuild(r)
        \/ UpdateBuildCheck(r)
        \/ UpdateBuildWrite(r)
        \/ DeleteLevels(r)
        \/ DeleteBuildRow(r)
        \/ LoadBuildRow(r)
        \/ LoadLevelRows(r)
        \/ ListBuildRows(r)
        \/ ListLevelRows(r)

\* Every thread serves one request and keeps its response.
SpecSerial == InitSerial /\ [][NextSerial]_vars

\* ------------------------------------------------------------------------
\* main.py: list_loot_items, list_enemies, list_races
\* ------------------------------------------------------------------------

\* A SELECT with no ORDER BY scans the table: SQLite returns the rows in
\* rowid order, the order in which they were inserted.
ByRowid(a, b) == a.rowid < b.rowid

\* SELECT ... FROM <table>    (no ORDER BY)
Scan(rows) == Orderings(rows, ByRowid)

RaceRow(rowid, name) ==
    [rowid |-> rowid, name |-> name, description |-> NULL, base_speed |-> <<"a">>,
     size |-> NULL]

\* The races database as shipped: up to MaxRowId races, inserted in any order
\* of their names, a subrace and a feature of each kind for the race "A".
RacesDatabases ==
    {[races |-> rs, subraces |-> subs, racial_features |-> rf, subrace_features |-> sf] :
        rs \in {t \in SUBSET {RaceRow(i, n) : i \in RowIds, n \in {<<"A">>, <<"b">>}} :
                   \A x, y \in t : (x.rowid = y.rowid \/ x.name = y.name) => x = y},
        subs \in SUBSET {[rowid |-> 1, race_name |-> <<"A">>, name |-> <<"a">>,
                          description |-> NULL]},
        rf \in SUBSET {[rowid |-> 1, race_name |-> <<"A">>, name |-> NULL,
                        description |-> <<"b">>]},
        sf \in SUBSET {[rowid |-> 1, subrace_name |-> <<"a">>, name |-> <<"b">>,
                        description |-> NULL]}}

\* schemas.RaceFeature / schemas.SubraceFeature of a feature row
FeatureOf(row) == [name |-> OrEmpty(row.name), description |-> row.description]

\* race_feature_map[...] / subrace_feature_map[...]: the features whose key is `key`
FeaturesOf(rows, column, key) ==
    LET Keyed(row) == row[column] = key
        selected == SelectSeq(rows, Keyed)
    IN [i \in DOMAIN selected |-> FeatureOf(selected[i])]

\* subrace_map[race_name]
SubracesOf(rows, feature_rows, race_name) ==
    LET OfRace(row) == row.race_name = race_name
        selected == SelectSeq(rows, OfRace)
    IN [i \in DOMAIN selected |->
           [name |-> OrEmpty(selected[i].name), description |-> selected[i].description,
            features |-> FeaturesOf(feature_rows, "subrace_name", selected[i].name)]]

\* schemas.Race(...) of a row of races
RaceOf(row, subrace_rows, feature_rows, subrace_feature_rows) ==
    [name |-> row.name, description |-> row.description, base_speed |-> row.base_speed,
     size |-> row.size,
     features |-> FeaturesOf(feature_rows, "race_name", row.name),
     subraces |-> SubracesOf(subrace_rows, subrace_feature_rows, row.name)]

ListFaults == {NoFault, Fault("fetch_all")}

StartListLoot(r) ==
    /\ pc[r] = "idle"
    /\ \E fault \in SlotFaults(r, ListFaults) :
           Begin(r, [op |-> "list_loot_items", id |-> 0, body |-> NoBody, fault |-> fault],
                 "list_loot")

StartListEnemies(r) ==
    /\ pc[r] = "idle"
    /\ \E fault \in SlotFaults(r, ListFaults) :
           Begin(r, [op |-> "list_enemies", id |-> 0, body |-> NoBody, fault |-> fault],
                 "list_enemies")

StartListRaces(r) ==
    /\ pc[r] = "idle"
    /\ \E fault \in SlotFaults(r, ListFaults) :
           Begin(r, [op |-> "list_races", id |-> 0, body |-> NoBody, fault |-> fault],
                 "list_races")

\* GET /api/loot: SELECT ... FROM items ORDER BY name COLLATE NOCASE
ListLootItems(r) ==
    /\ pc[r] = "list_loot"
    /\ IF req[r].fault.stmt = "fetch_all"
       THEN /\ Respond(r, Unhandled("sqlite3.Error"))
            /\ UNCHANGED schemavars
       ELSE /\ Connected
            /\ \E rows \in Orderings(items, ByNameNocase) :
                  IF \E i \in DOMAIN rows : ~ValidLootModel(rows[i])
                  THEN Respond(r, Unhandled("ValidationError"))
                  ELSE Respond(r, Returned(200,
                          [i \in DOMAIN rows |->
                              PydanticModel(LootItemFields, _boolify(rows[i], "is_collected"))]))
    /\ UNCHANGED <<dbvars, lootvars, req, loc, hist, deleted>>

\* GET /api/bestiary: SELECT ... FROM enemies ORDER BY name COLLATE NOCASE
ListEnemies(r) ==
    /\ pc[r] = "list_enemies"
    /\ IF req[r].fault.stmt = "fetch_all"
       THEN /\ Respond(r, Unhandled("sqlite3.Error"))
            /\ UNCHANGED schemavars
       ELSE /\ Connected
            /\ \E rows \in Orderings(enemies, ByNameNocase) :
                  IF \E i \in DOMAIN rows : ~ValidLootModel(rows[i])
                  THEN Respond(r, Unhandled("ValidationError"))
                  ELSE Respond(r, Returned(200,
                          [i \in DOMAIN rows |-> PydanticModel(EnemyFields, rows[i])]))
    /\ UNCHANGED <<dbvars, lootvars, req, loc, hist, deleted>>

\* GET /api/races: four SELECTs without ORDER BY on the races database, then
\* one Race for every row of races, in the order the SELECT returned them.
ListRaces(r) ==
    /\ pc[r] = "list_races"
    /\ IF req[r].fault.stmt = "fetch_all"
       THEN /\ Respond(r, Unhandled("sqlite3.Error"))
            /\ UNCHANGED schema_initialized
       ELSE /\ schema_initialized' = schema_initialized \cup {"races"}
            /\ \E rows \in Scan(races.races) :
               \E subrace_rows \in Scan(races.subraces) :
               \E feature_rows \in Scan(races.racial_features) :
               \E subrace_feature_rows \in Scan(races.subrace_features) :
                  Respond(r, Returned(200,
                      [i \in DOMAIN rows |->
                          RaceOf(rows[i], subrace_rows, feature_rows, subrace_feature_rows)]))
    /\ UNCHANGED <<dbvars, lootvars, level_columns, req, loc, hist, deleted>>

\* The start of the listing requests: the tables hold the seeded rows.
InitLists ==
    /\ builds = SeedTwoBuilds.builds
    /\ build_levels = SeedTwoBuilds.build_levels
    /\ sqlite_sequence = SeedTwoBuilds.seq
    /\ items = SeedItems
    /\ enemies = SeedEnemies
    /\ not_null = ItemsNotNull
    /\ races \in RacesDatabases
    /\ reference = NoReference
    /\ schema_initialized = {}
    /\ level_columns = LevelColumns
    /\ pc = [r \in Reqs |-> "idle"]
    /\ req = [r \in Reqs |-> NoRequest]
    /\ loc = [r \in Reqs |-> NoLocals]
    /\ resp = [r \in Reqs |-> NoResponse]
    /\ hist = [r \in Reqs |-> NoHistory]
    /\ deleted = {}

NextLists ==
    \E r \in Reqs :
        \/ StartList(r)
        \/ StartListLoot(r)
        \/ StartListEnemies(r)
        \/ StartListRaces(r)
        \/ ListBuildRows(r)
        \/ ListLevelRows(r)
        \/ ListLootItems(r)
        \/ ListEnemies(r)
        \/ ListRaces(r)
        \/ Finish(r)

\* GET /api/builds, /api/loot, /api/bestiary and /api/races.
SpecLists == InitLists /\ [][NextLists]_vars

\* ------------------------------------------------------------------------
\* main.py: _serialize_skill_choices and _deserialize_skill_choices applied
\* to a list of choices, as a write and the read that follows it
\* ------------------------------------------------------------------------

\* Longest choice text.
MaxChoiceLen == 2

\* Letters in both cases, the blank that strip removes, and the two
\* characters json.dumps escapes.
ChoiceChars == {"a", "A", " ", "\"", "\\"}

ChoiceTexts == UNION {[1..n -> ChoiceChars] : n \in 0..MaxChoiceLen}

\* Lists of no, one or two choices.
ChoiceLists ==
    {<<>>} \cup {<<t>> : t \in ChoiceTexts} \cup {<<t, u>> : t, u \in ChoiceTexts}

\* builds.skill_choices of a row no Create wrote: NULL or the empty string.
BlankValues == {NULL, EMPTY}

StartSerialize(r) ==
    /\ pc[r] = "idle"
    /\ r \in FullSlots
    /\ \E choices \in ChoiceLists :
           Begin(r, [op |-> "serialize", id |-> 0,
                     body |-> [name |-> EMPTY, skill_choices |-> choices], fault |-> NoFault],
                 "serialize")

StartDeserialize(r) ==
    /\ pc[r] = "idle"
    /\ \E value \in BlankValues :
           Begin(r, [op |-> "deserialize", id |-> 0,
                     body |-> [name |-> EMPTY, value |-> value], fault |-> NoFault],
                 "deserialize")

\* value = _serialize_skill_choices(choices)
Serialize(r) ==
    /\ pc[r] = "serialize"
    /\ loc' = [loc EXCEPT ![r].value = _serialize_skill_choices(req[r].body.skill_choices)]
    /\ Goto(r, "deserialize")
    /\ UNCHANGED <<dbvars, lootvars, schemavars, req, hist, deleted>>

\* _deserialize_skill_choices(value)
Deserialize(r) ==
    /\ pc[r] = "deserialize"
    /\ LET value == IF req[r].op = "serialize" THEN loc[r].value ELSE req[r].body.value
       IN Respond(r, Returned(200, _deserialize_skill_choices(value)))
    /\ UNCHANGED <<dbvars, lootvars, schemavars, req, loc, hist, deleted>>

NextSkill ==
    \E r \in Reqs :
        \/ StartSerialize(r)
        \/ StartDeserialize(r)
        \/ Serialize(r)
        \/ Deserialize(r)
        \/ Finish(r)

\* The skill-choice functions on every list of ChoiceLists.
SpecSkill == InitLoot /\ [][NextSkill]_vars

\* ------------------------------------------------------------------------
\* Create, Replace and Delete requests served one at a time
\* ------------------------------------------------------------------------

\* One thread serves every request: a request begins when the one before it
\* has been answered.
NextOneAtATime ==
    \E r \in FullSlots :
        \/ StartCreate(r)
        \/ StartUpdate(r)
        \/ StartDelete(r)
        \/ CreateBuild(r)
        \/ UpdateBuildCheck(r)
        \/ UpdateBuildWrite(r)
        \/ DeleteLevels(r)
        \/ DeleteBuildRow(r)
        \/ Finish(r)

SpecOneAtATime == Init /\ [][NextOneAtATime]_vars

\* ------------------------------------------------------------------------
\* main.py: create_loot_item, with update_loot_item and list_loot_items
\* ------------------------------------------------------------------------

LootItemCreateFields == {"name", "type", "region", "description", "is_collected"}

\* schemas.LootItemCreate(**body): is_collected defaults to False, the
\* optional texts to None.
ValidateLootItemCreate(body) ==
    [f \in LootItemCreateFields |->
        IF f \in DOMAIN body THEN body[f]
        ELSE IF f = "is_collected" THEN PyFalse ELSE NULL]

\* Bodies of POST /api/loot: is_collected true, false or left out.
LootBodies ==
    {[name |-> NewText, description |-> NULL]}
    \cup {[name |-> NewText, description |-> NULL, is_collected |-> c] : c \in {PyTrue, PyFalse}}

\* INSERT INTO items (...) VALUES (...): the id is one more than the largest
\* id the table has held (AUTOINCREMENT; no request here deletes an item).
InsertItem(rows, payload) ==
    LET new_id == 1 + Cardinality(rows)
    IN [new_id |-> new_id,
        rows |-> rows \cup {[id |-> new_id, name |-> payload.name, type |-> payload.type,
                              region |-> payload.region,
                              description |-> payload.description,
                              is_collected |-> int(payload.is_collected)]}]

StartCreateLoot(r) ==
    /\ pc[r] = "idle"
    /\ \E body \in LootBodies :
       \E fault \in SlotFaults(r, {NoFault, Fault("insert"), Fault("reload")}) :
           Begin(r, [op |-> "create_loot_item", id |-> 0, body |-> body, fault |-> fault],
                 "create_loot")

\* POST /api/loot: execute(INSERT INTO items ..., fetch_lastrowid=True)
CreateLootItem(r) ==
    /\ pc[r] = "create_loot"
    /\ IF req[r].fault.stmt = "insert"
       THEN /\ Respond(r, Http(500, "Failed to create loot item"))
            /\ UNCHANGED <<items, schemavars, loc>>
       ELSE LET inserted == InsertItem(items, ValidateLootItemCreate(req[r].body))
            IN /\ Connected
               /\ items' = inserted.rows
               /\ loc' = [loc EXCEPT ![r].new_id = inserted.new_id]
               /\ Goto(r, "create_loot_reload")
    /\ UNCHANGED <<dbvars, enemies, not_null, races, reference, req, hist, deleted>>

\* POST /api/loot: fetch_one(SELECT ... FROM items WHERE id = ?), then the model.
CreateLootReload(r) ==
    /\ pc[r] = "create_loot_reload"
    /\ LET found == SelectRow(items, loc[r].new_id)
       IN IF req[r].fault.stmt = "reload"
          THEN /\ Respond(r, Http(500, "Failed to create loot item"))
               /\ UNCHANGED schemavars
          ELSE /\ Connected
               /\ IF found = {} THEN Respond(r, Http(500, "Failed to create loot item"))
                  ELSE \E row \in found :
                          IF ~ValidLootModel(row) THEN Respond(r, Unhandled("ValidationError"))
                          ELSE Respond(r, Returned(201,
                                  <<PydanticModel(LootItemFields,
                                                  _boolify(row, "is_collected"))>>))
    /\ UNCHANGED <<dbvars, lootvars, req, loc, hist, deleted>>

NextCollected ==
    \E r \in Reqs :
        \/ StartCreateLoot(r)
        \/ StartSparseUpdate(r)
        \/ StartListLoot(r)
        \/ CreateLootItem(r)
        \/ CreateLootReload(r)
        \/ SparseCheck(r)
        \/ SparseWrite(r)
        \/ SparseReload(r)
        \/ ListLootItems(r)

\* POST, PUT and GET on /api/loot (and PUT /api/bestiary), one request a thread.
SpecCollected == InitLoot /\ [][NextCollected]_vars

\* ------------------------------------------------------------------------
\* database.py: get_connection, fetch_all, fetch_one, execute, step by step
\* ------------------------------------------------------------------------

\* The keys of DATABASE_FILENAMES (and so of DATABASE_PATHS).
DatabaseKeys ==
    {"companion", "armours", "weapons", "spells", "races", "classes", "rings", "amulets",
     "cloaks", "clothing", "footwears", "handwears", "headwears", "shields"}

\* A lookup that finds a path for every key.
IsRegisteredAny(db_key) == TRUE

\* DATABASE_PATHS.get(db_key) is not None
IsRegistered(db_key) == db_key \in DatabaseKeys

\* The `finally: conn.close()` of get_connection, skipped when an exception passes.
FinallyOnSuccess(conn, exc) == IF exc = "none" THEN "closed" ELSE conn

\* try: ... finally: conn.close()
Finally(conn, exc) == "closed"

\* The keys the calls are made with: the companion database, a reference
\* database, and the key list_backgrounds passes, which is not registered.
CallKeys == {"companion", "spells", "backgrounds"}

CallOps == {"get_connection", "fetch_all", "fetch_one", "execute"}

\* Where a call can be made to fail: sqlite3.connect, the PRAGMA of the schema
\* check, the query, the commit of execute, the body of a `with get_connection`.
CallFaults(op) ==
    {NoFault, Fault("connect"), Fault("pragma")}
    \cup (IF op = "get_connection" THEN {Fault("body")} ELSE {Fault("query")})
    \cup (IF op = "execute" THEN {Fault("commit")} ELSE {})

\* The outcome of a call: what it raised ("none" when it returned).
Outcome(exc) == [NoResponse EXCEPT !.exc = exc]

StartCall(r) ==
    /\ pc[r] = "idle"
    /\ \E op \in CallOps : \E db_key \in CallKeys : \E fault \in SlotFaults(r, CallFaults(op)) :
           Begin(r, [op |-> op, id |-> 0, body |-> NoBody, fault |-> fault, db_key |-> db_key],
                 "conn_open")

\* The call of r ends raising exc (or returning, exc = "none"): the connection
\* is closed on the way out.
EndCall(r, exc) ==
    /\ Respond(r, Outcome(exc))
    /\ loc' = [loc EXCEPT ![r].conn = Finally(@, exc)]

\* path = DATABASE_PATHS.get(db_key); conn = sqlite3.connect(path)
ConnOpen(r) ==
    /\ pc[r] = "conn_open"
    /\ IF ~IsRegistered(req[r].db_key)
       THEN /\ Respond(r, Outcome("KeyError"))
            /\ UNCHANGED loc
       ELSE IF req[r].fault.stmt = "connect"
       THEN /\ Respond(r, Outcome("sqlite3.Error"))
            /\ UNCHANGED loc
       ELSE /\ Goto(r, "schema_flag")
            /\ loc' = [loc EXCEPT ![r].conn = "open"]
    /\ UNCHANGED <<dbvars, lootvars, schemavars, req, hist, deleted>>

\* _initialize_schema: if _SCHEMA_INITIALIZED.get(cache_key): return
SchemaFlag(r) ==
    /\ pc[r] = "schema_flag"
    /\ Goto(r, IF req[r].db_key \in schema_initialized THEN "conn_body"
               ELSE IF req[r].db_key = "companion" THEN "schema_pragma"
               ELSE "schema_set")
    /\ UNCHANGED <<dbvars, lootvars, schemavars, req, loc, hist, deleted>>

\* _ensure_companion_schema: PRAGMA table_info(build_levels)
SchemaPragma(r) ==
    /\ pc[r] = "schema_pragma"
    /\ IF req[r].fault.stmt = "pragma"
       THEN EndCall(r, "sqlite3.Error")
       ELSE /\ Goto(r, IF level_columns = {} \/ "note" \in level_columns
                       THEN "schema_set" ELSE "schema_alter")
            /\ loc' = [loc EXCEPT ![r].columns = level_columns]
    /\ UNCHANGED <<dbvars, lootvars, schemavars, req, hist, deleted>>

\* ALTER TABLE build_levels ADD COLUMN note TEXT DEFAULT ''; conn.commit().
\* SQLite refuses to add a column the table already has.
SchemaAlter(r) ==
    /\ pc[r] = "schema_alter"
    /\ IF "note" \in level_columns
       THEN /\ EndCall(r, "sqlite3.OperationalError")
            /\ UNCHANGED level_columns
       ELSE /\ level_columns' = level_columns \cup {"note"}
            /\ Goto(r, "schema_set")
            /\ UNCHANGED loc
    /\ UNCHANGED <<dbvars, lootvars, schema_initialized, req, hist, deleted>>

\* _SCHEMA_INITIALIZED[cache_key] = True
SchemaSet(r) ==
    /\ pc[r] = "schema_set"
    /\ schema_initialized' = schema_initialized \cup {req[r].db_key}
    /\ Goto(r, "conn_body")
    /\ UNCHANGED <<dbvars, lootvars, level_columns, req, loc, hist, deleted>>

\* The body of the `with`: the query of fetch_all / fetch_one, the query and
\* the commit of execute, the caller's statements for a bare get_connection.
ConnBody(r) ==
    /\ pc[r] = "conn_body"
    /\ LET stmt == req[r].fault.stmt
           exc == IF stmt \in {"query", "commit"} THEN "sqlite3.Error"
                  ELSE IF stmt = "body" THEN "Exception"
                  ELSE "none"
       IN /\ Respond(r, Outcome(exc))
          /\ loc' = [loc EXCEPT ![r].conn = Finally(@, exc),
                                ![r].committed = req[r].op = "execute" /\ exc = "none"]
    /\ UNCHANGED <<dbvars, lootvars, schemavars, req, hist, deleted>>

NextConn ==
    \E r \in Reqs :
        \/ StartCall(r)
        \/ ConnOpen(r)
        \/ SchemaFlag(r)
        \/ SchemaPragma(r)
        \/ SchemaAlter(r)
        \/ SchemaSet(r)
        \/ ConnBody(r)
        \/ Finish(r)

InitConn ==
    /\ Init
    /\ builds = SeedTwoBuilds.builds

\* Calls of database.py made from two threads.
SpecConn == InitConn /\ [][NextConn]_vars

\* ------------------------------------------------------------------------
\* main.py: the reference lists (spells, backgrounds, feats, abilities, races,
\* classes, weapons and the equipment lists)
\* ------------------------------------------------------------------------

LowerLetters == <<"a", "b", "c", "d", "e", "f", "g", "h", "i", "j", "k", "l", "m", "n", "o", "p", "q", "r", "s", "t", "u", "v", "w", "x", "y", "z">>

UpperLetters == <<"A", "B", "C", "D", "E", "F", "G", "H", "I", "J", "K", "L", "M", "N", "O", "P", "Q", "R", "S", "T", "U", "V", "W", "X", "Y", "Z">>

Digits == {"0", "1", "2", "3", "4", "5", "6", "7", "8", "9"}

\* re.IGNORECASE on one character: an upper-case letter counts as its lower case.
Lower(c) ==
    IF \E i \in DOMAIN UpperLetters : UpperLetters[i] = c
    THEN LowerLetters[CHOOSE i \in DOMAIN UpperLetters : UpperLetters[i] = c]
    ELSE c

\* \w: a letter, a digit or the underscore.
IsWordChar(c) ==
    \/ \E i \in DOMAIN LowerLetters : c \in {LowerLetters[i], UpperLetters[i]}
    \/ c \in Digits
    \/ c = "_"

IsWordAt(text, i) == i \in DOMAIN text /\ IsWordChar(text[i])

\* \b in front of character i (i = Len(text) + 1: at the end of the text).
WordBoundary(text, i) == IsWordAt(text, i - 1) # IsWordAt(text, i)

\* SPELL_SCHOOL_KEYWORDS, in the order of the tuple
SPELL_SCHOOL_KEYWORDS ==
    <<
       [keyword |-> <<"a", "b", "j", "u", "r", "a", "t", "i", "o", "n">>,
        canonical |-> <<"A", "b", "j", "u", "r", "a", "t", "i", "o", "n">>],
       [keyword |-> <<"c", "o", "n", "j", "u", "r", "a", "t", "i", "o", "n">>,
        canonical |-> <<"C", "o", "n", "j", "u", "r", "a", "t", "i", "o", "n">>],
       [keyword |-> <<"d", "i", "v", "i", "n", "a", "t", "i", "o", "n">>,
        canonical |-> <<"D", "i", "v", "i", "n", "a", "t", "i", "o", "n">>],
       [keyword |-> <<"e", "n", "c", "h", "a", "n", "t", "m", "e", "n", "t">>,
        canonical |-> <<"E", "n", "c", "h", "a", "n", "t", "m", "e", "n", "t">>],
       [keyword |-> <<"e", "v", "o", "c", "a", "t", "i", "o", "n">>,
        canonical |-> <<"E", "v", "o", "c", "a", "t", "i", "o", "n">>],
       [keyword |-> <<"i", "l", "l", "u", "s", "i", "o", "n">>,
        canonical |-> <<"I", "l", "l", "u", "s", "i", "o", "n">>],
       [keyword |-> <<"n", "e", "c", "r", "o", "m", "a", "n", "c", "y">>,
        canonical |-> <<"N", "e", "c", "r", "o", "m", "a", "n", "c", "y">>],
       [keyword |-> <<"t", "r", "a", "n", "s", "m", "u", "t", "a", "t", "i", "o", "n">>,
        canonical |-> <<"T", "r", "a", "n", "s", "m", "u", "t", "a", "t", "i", "o", "n">>]
    >>

\* re.compile(rf"\b{re.escape(keyword)}\b", re.IGNORECASE) matching at position i
MatchAt(keyword, text, i) ==
    /\ i + Len(keyword) - 1 <= Len(text)
    /\ WordBoundary(text, i)
    /\ \A k \in DOMAIN keyword : Lower(text[i + k - 1]) = Lower(keyword[k])
    /\ WordBoundary(text, i + Len(keyword))

\* pattern.search(description)
Search(keyword, text) == \E i \in DOMAIN text : MatchAt(keyword, text, i)

RECURSIVE InferFrom(_, _)
InferFrom(patterns, description) ==
    IF patterns = <<>> THEN NULL
    ELSE IF Search(Head(patterns).keyword, description) THEN Head(patterns).canonical
    ELSE InferFrom(Tail(patterns), description)

_infer_spell_school(description) ==
    IF description = NULL \/ description = EMPTY THEN NULL
    ELSE InferFrom(SPELL_SCHOOL_KEYWORDS, description)

\* schemas.py: the declared fields of Spell
SpellFields == {"name", "level", "description", "properties"}

\* ORDER BY spell_name COLLATE NOCASE, property_name COLLATE NOCASE
BySpellProperty(a, b) ==
    \/ NocaseLess(a.spell_name, b.spell_name)
    \/ NocaseEqual(a.spell_name, b.spell_name) /\ NocaseLess(a.property_name, b.property_name)

\* The rows of `rows` whose column `column` is `key`, in the order of `rows`:
\* what a defaultdict(list) filled row by row holds under `key`.
KeyedRows(rows, column, key) ==
    LET Keyed(row) == row[column] = key
    IN SelectSeq(rows, Keyed)

\* prop_map.get(name, [])
PropertiesOf(property_rows, name) ==
    LET selected == KeyedRows(property_rows, "spell_name", name)
    IN [i \in DOMAIN selected |->
           [name |-> OrEmpty(selected[i].property_name),
            value |-> OrEmpty(selected[i].property_value)]]

\* schemas.Spell(...) of a row of Spells
SpellOf(row, property_rows) ==
    PydanticModel(SpellFields,
        [name |-> row.name, level |-> row.level,
         school |-> _infer_spell_school(row.description),
         description |-> row.description, image_path |-> row.image_path,
         properties |-> PropertiesOf(property_rows, row.name)])

\* One nested model for every row of `rows` keyed `key`, with the columns
\* `named` read as `row.get(column) or ""` and the columns `plain` as they are.
NestedOf(rows, column, key, named, plain) ==
    LET selected == KeyedRows(rows, column, key)
    IN [i \in DOMAIN selected |->
           [f \in DOMAIN named \cup DOMAIN plain |->
               IF f \in DOMAIN named THEN OrEmpty(selected[i][named[f]])
               ELSE selected[i][plain[f]]]]

NoColumns == <<>>

\* schemas.Background(...) of a row of Backgrounds
BackgroundOf(row, skill_rows, character_rows, note_rows) ==
    [name |-> row.name, description |-> row.description,
     skills |-> NestedOf(skill_rows, "background_name", row.name,
                         [name |-> "skill_name"], NoColumns),
     characters |-> NestedOf(character_rows, "background_name", row.name,
                             [name |-> "character_name"], NoColumns),
     notes |-> NestedOf(note_rows, "background_name", row.name, [note |-> "note"], NoColumns)]

\* schemas.Feat(...) of a row of Feats
FeatOf(row, option_rows, note_rows) ==
    [name |-> row.name, description |-> row.description, prerequisite |-> row.prerequisite,
     options |-> NestedOf(option_rows, "feat_name", row.name,
                          [name |-> "option_name"], [description |-> "description"]),
     notes |-> NestedOf(note_rows, "feat_name", row.name, [note |-> "note"], NoColumns)]

\* schemas.Ability(...) of a row of Abilities
AbilityOf(row, use_rows, check_rows, skill_rows, save_rows) ==
    [name |-> row.name, description |-> row.description, image_path |-> row.image_path,
     uses |-> NestedOf(use_rows, "ability_name", row.name,
                       [name |-> "use_name"], [description |-> "description"]),
     checks |-> NestedOf(check_rows, "ability_name", row.name, NoColumns,
                         [type |-> "check_type", description |-> "description"]),
     skills |-> NestedOf(skill_rows, "ability_name", row.name,
                         [name |-> "skill_name"], [description |-> "description"]),
     saves |-> NestedOf(save_rows, "ability_name", row.name, NoColumns,
                        [description |-> "description"])]

\* The database key every reference list handler passes to fetch_all.
ReferenceKey ==
    [list_spells |-> "spells", list_races |-> "races", list_classes |-> "classes",
     list_armours |-> "armours", list_weapons |-> "weapons", list_rings |-> "rings",
     list_amulets |-> "amulets", list_cloaks |-> "cloaks", list_clothing |-> "clothing",
     list_footwears |-> "footwears", list_handwears |-> "handwears",
     list_headwears |-> "headwears", list_shields |-> "shields",
     list_backgrounds |-> "backgrounds", list_feats |-> "feats",
     list_abilities |-> "abilities"]

ReferenceLists == DOMAIN ReferenceKey

\* list_classes, list_weapons and the handlers that call _list_equipment
CatalogueLists ==
    ReferenceLists \ {"list_spells", "list_races", "list_backgrounds", "list_feats",
                      "list_abilities"}

Upper(c) ==
    IF \E i \in DOMAIN LowerLetters : LowerLetters[i] = c
    THEN UpperLetters[CHOOSE i \in DOMAIN LowerLetters : LowerLetters[i] = c]
    ELSE c

\* The descriptions of the spell "A": none, empty, a keyword alone, in upper
\* case, inside a longer word, inside a sentence, two keywords, no keyword.
Descriptions ==
    LET evocation == SPELL_SCHOOL_KEYWORDS[5].keyword
        illusion == SPELL_SCHOOL_KEYWORDS[6].keyword
        EVOCATION == [i \in DOMAIN evocation |-> Upper(evocation[i])]
    IN {NULL, EMPTY, evocation, EVOCATION, <<"x">> \o evocation, evocation \o <<"s">>,
        <<"a", " ">> \o EVOCATION \o <<".">>, illusion \o <<" ">> \o evocation,
        <<"a", " ", "b">>}

SpellRow(name, description) ==
    [name |-> name, level |-> <<"a">>, description |-> description, image_path |-> NULL]

\* Rows of Spell_Properties: two of the spell "A", one whose spell_name names
\* no spell (SQLite does not enforce the FOREIGN KEY unless asked to).
SpellPropertyRows ==
    {[id |-> 1, spell_name |-> <<"A">>, property_name |-> <<"b">>, property_value |-> <<"a">>],
     [id |-> 2, spell_name |-> <<"A">>, property_name |-> <<"a">>, property_value |-> NULL],
     [id |-> 3, spell_name |-> <<"B">>, property_name |-> <<"a">>, property_value |-> <<"b">>]}

\* The reference databases: the spell "A" with any of the descriptions, the
\* spell "b" without one, any of the property rows; one background, one feat and
\* one ability with their nested rows, as the fixtures of the tests have them.
ReferenceDatabases ==
    {[NoReference EXCEPT
         !["Spells"] = {SpellRow(<<"A">>, d), SpellRow(<<"b">>, NULL)},
         !["Spell_Properties"] = props,
         !["Backgrounds"] = {[rowid |-> 1, name |-> <<"A">>, description |-> <<"a">>]},
         !["Background_Skills"] =
             {[rowid |-> i, background_name |-> <<"A">>, skill_name |-> <<"a">>] : i \in RowIds},
         !["Background_Characters"] =
             {[rowid |-> 1, background_name |-> <<"A">>, character_name |-> <<"b">>]},
         !["Background_Notes"] =
             {[rowid |-> 1, background_name |-> <<"A">>, note |-> <<"a">>]},
         !["Feats"] = {[rowid |-> 1, name |-> <<"A">>, description |-> <<"a">>,
                        prerequisite |-> NULL]},
         !["Feat_Options"] =
             {[rowid |-> i, feat_name |-> <<"A">>, option_name |-> <<"a">>,
               description |-> NULL] : i \in RowIds},
         !["Feat_Notes"] = {[rowid |-> 1, feat_name |-> <<"A">>, note |-> <<"b">>]},
         !["Abilities"] = {[rowid |-> 1, name |-> <<"A">>, description |-> <<"a">>,
                            image_path |-> <<"b">>]},
         !["Ability_Uses"] =
             {[rowid |-> 1, ability_name |-> <<"A">>, use_name |-> <<"a">>,
               description |-> <<"b">>]},
         !["Ability_Checks"] =
             {[rowid |-> 1, ability_name |-> <<"A">>, check_type |-> <<"a">>,
               description |-> <<"b">>]},
         !["Ability_Check_Skills"] =
             {[rowid |-> 1, ability_name |-> <<"A">>, skill_name |-> <<"a">>,
               description |-> NULL]},
         !["Ability_Saves"] =
             {[rowid |-> 1, ability_name |-> <<"A">>, description |-> <<"b">>]}] :
        d \in Descriptions,
        props \in SUBSET SpellPropertyRows}

\* The lists a slot asks for: every list in a full slot, in the others the
\* spells and the backgrounds.
SlotLists(r) == IF r \in FullSlots THEN ReferenceLists ELSE {"list_spells", "list_backgrounds"}

StartReferenceList(r) ==
    /\ pc[r] = "idle"
    /\ \E op \in SlotLists(r) : \E fault \in SlotFaults(r, ListFaults) :
           Begin(r, [op |-> op, id |-> 0, body |-> NoBody, fault |-> fault], op)

\* fetch_all(db_key, ...) of a reference list: get_connection raises KeyError
\* for a key DATABASE_PATHS does not hold; a sqlite3 error is not caught.
FetchFailure(r) ==
    IF ~IsRegistered(ReferenceKey[req[r].op]) THEN Unhandled("KeyError")
    ELSE IF req[r].fault.stmt = "fetch_all" THEN Unhandled("sqlite3.Error")
    ELSE NoResponse

\* What a reference list does besides answering: _initialize_schema notes the key.
Fetched(r, response) ==
    /\ Respond(r, response)
    /\ schema_initialized' =
          IF response.exc = "none"
          THEN schema_initialized \cup {ReferenceKey[req[r].op]}
          ELSE schema_initialized
    /\ UNCHANGED <<dbvars, lootvars, level_columns, req, loc, hist, deleted>>

\* GET /api/spells
ListSpells(r) ==
    /\ pc[r] = "list_spells"
    /\ IF FetchFailure(r) # NoResponse THEN Fetched(r, FetchFailure(r))
       ELSE \E spells \in Orderings(reference["Spells"], ByNameNocase) :
            \E properties \in Orderings(reference["Spell_Properties"], BySpellProperty) :
               Fetched(r, Returned(200, [i \in DOMAIN spells |-> SpellOf(spells[i], properties)]))

\* GET /api/backgrounds
ListBackgrounds(r) ==
    /\ pc[r] = "list_backgrounds"
    /\ IF FetchFailure(r) # NoResponse THEN Fetched(r, FetchFailure(r))
       ELSE \E backgrounds \in Scan(reference["Backgrounds"]) :
            \E skill_rows \in Scan(reference["Background_Skills"]) :
            \E character_rows \in Scan(reference["Background_Characters"]) :
            \E note_rows \in Scan(reference["Background_Notes"]) :
               Fetched(r, Returned(200,
                   [i \in DOMAIN backgrounds |->
                       BackgroundOf(backgrounds[i], skill_rows, character_rows, note_rows)]))

\* GET /api/feats
ListFeats(r) ==
    /\ pc[r] = "list_feats"
    /\ IF FetchFailure(r) # NoResponse THEN Fetched(r, FetchFailure(r))
       ELSE \E feats \in Scan(reference["Feats"]) :
            \E option_rows \in Scan(reference["Feat_Options"]) :
            \E note_rows \in Scan(reference["Feat_Notes"]) :
               Fetched(r, Returned(200,
                   [i \in DOMAIN feats |-> FeatOf(feats[i], option_rows, note_rows)]))

\* GET /api/abilities
ListAbilities(r) ==
    /\ pc[r] = "list_abilities"
    /\ IF FetchFailure(r) # NoResponse THEN Fetched(r, FetchFailure(r))
       ELSE \E abilities \in Scan(reference["Abilities"]) :
            \E use_rows \in Scan(reference["Ability_Uses"]) :
            \E check_rows \in Scan(reference["Ability_Checks"]) :
            \E skill_rows \in Scan(reference["Ability_Check_Skills"]) :
            \E save_rows \in Scan(reference["Ability_Saves"]) :
               Fetched(r, Returned(200,
                   [i \in DOMAIN abilities |->
                       AbilityOf(abilities[i], use_rows, check_rows, skill_rows, save_rows)]))

\* GET /api/classes, /api/weapons and the equipment lists, on databases whose
\* tables hold no row: the answer is the empty array.
ListCatalogue(r) ==
    /\ pc[r] \in CatalogueLists
    /\ IF FetchFailure(r) # NoResponse THEN Fetched(r, FetchFailure(r))
       ELSE Fetched(r, Returned(200, <<>>))

\* The start of the reference lists: the companion database holds the seeded
\* loot, the reference databases any of their contents.
InitReference ==
    /\ builds = {}
    /\ build_levels = {}
    /\ sqlite_sequence = [builds |-> 0, build_levels |-> 0]
    /\ items = SeedItems
    /\ enemies = SeedEnemies
    /\ not_null = ItemsNotNull
    /\ races = NoRaces
    /\ reference \in ReferenceDatabases
    /\ schema_initialized = {}
    /\ level_columns = {}
    /\ pc = [r \in Reqs |-> "idle"]
    /\ req = [r \in Reqs |-> NoRequest]
    /\ loc = [r \in Reqs |-> NoLocals]
    /\ resp = [r \in Reqs |-> NoResponse]
    /\ hist = [r \in Reqs |-> NoHistory]
    /\ deleted = {}

NextReference ==
    \E r \in Reqs :
        \/ StartReferenceList(r)
        \/ ListSpells(r)
        \/ ListRaces(r)
        \/ ListBackgrounds(r)
        \/ ListFeats(r)
        \/ ListAbilities(r)
        \/ ListCatalogue(r)

\* The sixteen reference lists, one request a thread.
SpecReference == InitReference /\ [][NextReference]_vars

\* ------------------------------------------------------------------------
\* Vocabulary of the properties
\* ------------------------------------------------------------------------

Done(r, op) == pc[r] = "done" /\ req[r].op = op

TextOrEmpty(value) == IF value = NULL THEN EMPTY ELSE value

\* `build` (a returned Build) is the build row `id` of the tables `snap`
\* together with exactly the level rows of `id` in `snap`.
IsAggregateOf(build, snap, id) ==
    /\ build.id = id
    /\ \E b \in snap.builds :
          /\ b.id = id
          /\ build.name = b.name
          /\ build.race = b.race
          /\ build.class_name = b.class
          /\ build.subclass = b.subclass
          /\ build.notes = b.notes
    /\ LET rows == {l \in snap.build_levels : l.build_id = id}
       IN /\ Len(build.levels) = Cardinality(rows)
          /\ \A l \in rows : \E i \in DOMAIN build.levels :
                /\ build.levels[i].id = l.id
                /\ build.levels[i].level = l.level
                /\ build.levels[i].spells = TextOrEmpty(l.spells)
                /\ build.levels[i].feats = TextOrEmpty(l.feats)
                /\ build.levels[i].subclass_choice = TextOrEmpty(l.subclass_choice)
                /\ build.levels[i].multiclass_choice = TextOrEmpty(l.multiclass_choice)

RowsOf(snap, id) ==
    [builds |-> {b \in snap.builds : b.id = id},
     build_levels |-> {l \in snap.build_levels : l.build_id = id}]

AscendingLevels(levels) ==
    \A i, j \in DOMAIN levels : i < j => levels[i].level <= levels[j].level

\* The level numbers of a body, as a bag: how often each number occurs.
LevelCount(levels, n) == Cardinality({i \in DOMAIN levels : levels[i].level = n})

SameLevelNumbers(returned, supplied) ==
    /\ Len(returned) = Len(supplied)
    /\ \A n \in 1..MaxLevelNo : LevelCount(returned, n) = LevelCount(supplied, n)

\* The first occurrences of the trimmed, non-empty entries of `input`,
\* compared without case, in their order and with their casing.
RECURSIVE FirstOccurrencesFrom(_, _)
FirstOccurrencesFrom(input, i) ==
    IF i > Len(input) THEN <<>>
    ELSE LET text == strip(input[i])
         IN (IF /\ text # <<>>
                /\ \A j \in 1..(i - 1) : ~NocaseEqual(strip(input[j]), text)
             THEN <<text>> ELSE <<>>)
            \o FirstOccurrencesFrom(input, i + 1)

FirstOccurrences(input) == FirstOccurrencesFrom(input, 1)

\* The request met no storage fault and no other request changed a row while
\* it ran.
Undisturbed(r) == req[r].fault = NoFault /\ ~hist[r].disturbed

\* ------------------------------------------------------------------------
\* C1  Create is all-or-nothing: a create whose build insert fails, whose
\*     insert yields no identifier, or whose k-th level insert fails answers
\*     500 "Failed to create build" and has changed no row.
\* ------------------------------------------------------------------------
C1_CreateAllOrNothing ==
    \A r \in Reqs :
        (/\ Done(r, "create_build")
         /\ req[r].fault.stmt \in {"insert_build", "lastrowid", "insert_level"})
        => /\ resp[r].status = 500
           /\ resp[r].detail = "Failed to create build"
           /\ ~hist[r].changed

\* ------------------------------------------------------------------------
\* C2  Replace is all-or-nothing: an update that passed the existence check
\*     and whose UPDATE, DELETE of the levels or k-th level INSERT fails
\*     answers 500 "Failed to update build" and has changed no row.
\* ------------------------------------------------------------------------
C2_ReplaceAllOrNothing ==
    \A r \in Reqs :
        (/\ Done(r, "update_build")
         /\ loc[r].existing # {}
         /\ req[r].fault.stmt \in {"update", "delete_levels", "insert_level"})
        => /\ resp[r].status = 500
           /\ resp[r].detail = "Failed to update build"
           /\ ~hist[r].changed

\* ------------------------------------------------------------------------
\* C3  Replace of an id no build row carries answers 404 "Build not found";
\*     the handler never goes on to its writes, and no statement of the
\*     request has changed a row of builds or build_levels.
\* ------------------------------------------------------------------------
C3_ReplaceMissingIs404 ==
    \A r \in Reqs :
        /\ pc[r] = "update_write" => ~hist[r].absent
        /\ (req[r].op = "update_build" /\ hist[r].absent)
           => /\ pc[r] = "done"
              /\ resp[r].status = 404
              /\ resp[r].detail = "Build not found"
              /\ ~hist[r].changed

C3_Witness ==
    \E r \in Reqs :
        /\ Done(r, "update_build")
        /\ hist[r].absent
        /\ resp[r].status = 404
        /\ req[r].body.levels # <<>>

\* ------------------------------------------------------------------------
\* C4  Replace is a full replace: an update of an existing build that meets no
\*     storage fault answers 200 with the payload's scalar fields and exactly
\*     the payload's levels, none of the rows the build had before.
\* ------------------------------------------------------------------------
C4_ReplaceIsFullReplace ==
    \A r \in Reqs :
        (/\ Done(r, "update_build")
         /\ loc[r].existing # {}
         /\ Undisturbed(r))
        => /\ resp[r].status = 200
           /\ Len(resp[r].body) = 1
           /\ resp[r].body[1].name = req[r].body.name
           /\ resp[r].body[1].notes = req[r].body.notes
           /\ SameLevelNumbers(resp[r].body[1].levels, req[r].body.levels)
           /\ \A i \in DOMAIN resp[r].body[1].levels :
                 resp[r].body[1].levels[i].id \notin hist[r].old_levels

\* ------------------------------------------------------------------------
\* C5  A build created or replaced with N levels, in any order and with
\*     duplicate level numbers, is returned with N levels in ascending order
\*     of level number; every build of the list has its levels in that order.
\* ------------------------------------------------------------------------
C5_LevelsCountedAndSorted ==
    \A r \in Reqs :
        /\ (/\ pc[r] = "done"
            /\ req[r].op \in {"create_build", "update_build"}
            /\ req[r].op = "update_build" => loc[r].existing # {}
            /\ Undisturbed(r))
           => /\ resp[r].status \in {200, 201}
              /\ Len(resp[r].body) = 1
              /\ Len(resp[r].body[1].levels) = Len(req[r].body.levels)
              /\ AscendingLevels(resp[r].body[1].levels)
        /\ (pc[r] = "done" /\ resp[r].status \in {200, 201})
           => \A i \in DOMAIN resp[r].body : AscendingLevels(resp[r].body[i].levels)

\* ------------------------------------------------------------------------
\* C6  The skill choices a load returns are trimmed and non-empty, pairwise
\*     different without case, and are the first occurrences of the trimmed
\*     input in its order and casing.
\* ------------------------------------------------------------------------
C6_SkillChoicesNormalized ==
    \A r \in Reqs :
        /\ (pc[r] = "done" /\ resp[r].status \in {200, 201})
           => \A i \in DOMAIN resp[r].body :
                 /\ HasAttr(resp[r].body[i], "skill_choices")
                 /\ LET got == resp[r].body[i].skill_choices
                    IN /\ \A k \in DOMAIN got : got[k] # <<>> /\ strip(got[k]) = got[k]
                       /\ \A k, m \in DOMAIN got : k # m => ~NocaseEqual(got[k], got[m])
        /\ (/\ pc[r] = "done"
            /\ req[r].op \in {"create_build", "update_build"}
            /\ req[r].op = "update_build" => loc[r].existing # {}
            /\ Undisturbed(r))
           => /\ resp[r].status \in {200, 201}
              /\ Len(resp[r].body) = 1
              /\ HasAttr(resp[r].body[1], "skill_choices")
              /\ resp[r].body[1].skill_choices = FirstOccurrences(req[r].body.skill_choices)

\* ------------------------------------------------------------------------
\* C7: sparse update of a loot item or an enemy
\* ------------------------------------------------------------------------

\* What a column holds once a supplied JSON value is written to it.
Stored(value) ==
    IF value = PyTrue THEN <<"1">> ELSE IF value = PyFalse THEN <<"0">> ELSE value

\* The step of request r that runs (or skips) its UPDATE statement.
SparseWriteStep(r) == pc[r] = "sparse_write" /\ pc'[r] # "sparse_write"

\* No database error was injected into the UPDATE of request r.
NoUpdateError(r) == req[r].fault.stmt # "update"

\* SQLite accepts the UPDATE of request r: no database error, and no null
\* supplied for a NOT NULL column.
UpdateAccepted(r) ==
    /\ NoUpdateError(r)
    /\ \A c \in DOMAIN req[r].body :
           <<TableOf(req[r].op), c>> \in not_null => req[r].body[c] # NULL

\* Across the UPDATE step of request r: the other table and every other row
\* are as before, no row appears or disappears, and the target row (when
\* `written`) holds the supplied value in each supplied column and its old
\* value in every other; when not `written` it is as before.
SparseEffect(r, written) ==
    LET table == TableOf(req[r].op)
        body == req[r].body
        before == Rows(table)
        after == IF table = "items" THEN items' ELSE enemies'
    IN /\ table = "items" => enemies' = enemies
       /\ table = "enemies" => items' = items
       /\ {row.id : row \in after} = {row.id : row \in before}
       /\ Cardinality(after) = Cardinality(before)
       /\ \A old \in before : \A new \in after :
              new.id = old.id =>
                  IF old.id = req[r].id /\ written
                  THEN \A c \in DOMAIN old \ {"id"} :
                           new[c] = IF c \in DOMAIN body THEN Stored(body[c]) ELSE old[c]
                  ELSE new = old

\* C7 (as claimed): for every subset S of fields present in the PUT payload of
\* a loot item or an enemy, exactly the columns in S are written with the
\* supplied values, and every column not in S and every other row keeps its
\* value (database errors set aside).
C7_SparseUpdateWritesEverySuppliedField ==
    [][\A r \in Reqs : SparseWriteStep(r) => SparseEffect(r, NoUpdateError(r))]_vars

\* C7 (amended): when SQLite accepts the UPDATE (no database error and no null
\* supplied for a NOT NULL column), exactly the columns in S are written with
\* the supplied values (is_collected as 0 or 1); when it rejects the UPDATE
\* nothing is written; in both cases every column not in S and every other
\* row keeps its pre-update value.
C7_SparseUpdateWritesAcceptedFields ==
    [][\A r \in Reqs : SparseWriteStep(r) => SparseEffect(r, UpdateAccepted(r))]_vars

\* A PUT /api/loot/{id} carrying only `description` has answered 200: the row
\* has the new description, and its name, type, region and is_collected are
\* those it had before the UPDATE.
C7_Witness ==
    \E r \in Reqs :
        /\ Done(r, "update_loot_item")
        /\ resp[r].status = 200
        /\ DOMAIN req[r].body = {"description"}
        /\ \E old \in hist[r].old_row : \E row \in items :
               /\ row.id = req[r].id
               /\ old.description # req[r].body.description
               /\ row.description = req[r].body.description
               /\ row.name = old.name
               /\ row.type = old.type
               /\ row.region = old.region
               /\ row.is_collected = old.is_collected

\* ------------------------------------------------------------------------
\* C8  Delete is idempotent in effect: once a delete of id has answered 204
\*     no row of id is stored, a get of id begun afterwards answers 404, a
\*     list begun afterwards does not hold id; a delete that meets no storage
\*     fault answers 204, and one of an id already deleted or never stored
\*     changes no row.
\* ------------------------------------------------------------------------
C8_DeleteIdempotent ==
    /\ \A id \in deleted :
          /\ \A b \in builds : b.id # id
          /\ \A l \in build_levels : l.build_id # id
    /\ \A r \in Reqs :
          /\ (Done(r, "get_build") /\ req[r].id \in hist[r].gone /\ req[r].fault = NoFault)
             => resp[r].status = 404 /\ resp[r].detail = "Build not found"
          /\ (Done(r, "list_builds") /\ resp[r].status = 200)
             => \A i \in DOMAIN resp[r].body : resp[r].body[i].id \notin hist[r].gone
          /\ (Done(r, "delete_build") /\ req[r].fault = NoFault)
             => resp[r].status = 204 /\ req[r].id \in deleted
          /\ (Done(r, "delete_build") /\ (req[r].id \in hist[r].gone \/ hist[r].vacant))
             => ~hist[r].changed

C8_Witness ==
    \E r, q \in Reqs :
        /\ Done(r, "delete_build")
        /\ req[r].id \in hist[r].gone
        /\ resp[r].status = 204
        /\ Done(q, "get_build")
        /\ req[q].id = req[r].id
        /\ resp[q].status = 404

\* ------------------------------------------------------------------------
\* C9  The reload after a committed create is outside the transaction: when
\*     the reload meets a storage error the answer is 500 "Failed to create
\*     build" (for an update, "Failed to update build") and the rows the
\*     request committed are stored.
\* ------------------------------------------------------------------------
C9_ReloadFailureKeepsCommit ==
    \A r \in Reqs :
        (/\ pc[r] = "done"
         /\ req[r].op \in {"create_build", "update_build"}
         /\ req[r].op = "update_build" => loc[r].existing # {}
         /\ req[r].fault.stmt \in {"fetch_build", "fetch_levels"})
        => /\ resp[r].status = 500
           /\ resp[r].detail = IF req[r].op = "create_build"
                               THEN "Failed to create build"
                               ELSE "Failed to update build"
           /\ hist[r].changed

C12_SchemaCheckSafeToRace ==
    \A r \in Reqs :
        (/\ pc[r] = "done"
         /\ req[r].op \in CallOps
         /\ req[r].db_key \in DatabaseKeys
         /\ req[r].fault = NoFault)
        => resp[r].exc = "none"

\* ------------------------------------------------------------------------
\* C13 Every call of get_connection, fetch_all, fetch_one and execute has
\*     closed the connection it opened when it returns or raises, so no call
\*     that is not running holds an open connection; an execute that returns
\*     has committed.
\* ------------------------------------------------------------------------
C13_ConnectionReleased ==
    \A r \in Reqs :
        /\ pc[r] \in {"idle", "done"} => loc[r].conn # "open"
        /\ (pc[r] = "done" /\ req[r].op \in CallOps /\ req[r].db_key \in DatabaseKeys
               /\ req[r].fault.stmt # "connect")
           => loc[r].conn = "closed"
        /\ (Done(r, "execute") /\ resp[r].exc = "none") => loc[r].committed

C13_Witness ==
    \E r, q \in Reqs :
        /\ Done(r, "fetch_all")
        /\ req[r].fault.stmt = "query"
        /\ resp[r].exc = "sqlite3.Error"
        /\ loc[r].conn = "closed"
        /\ Done(q, "execute")
        /\ resp[q].exc = "none"
        /\ loc[q].committed

\* ------------------------------------------------------------------------
\* C14 A call with a database key that is not registered raises KeyError at
\*     the lookup of the path: no connection is opened, no statement runs,
\*     and the tables and the schema flags are as they were.
\* ------------------------------------------------------------------------
C14_UnknownKeyFailsBeforeIO ==
    [][\A r \in Reqs :
          (/\ req[r].op \in CallOps
           /\ req[r].db_key \notin DatabaseKeys
           /\ pc[r] = "conn_open"
           /\ pc'[r] # pc[r])
          => /\ pc'[r] = "done"
             /\ resp'[r].exc = "KeyError"
             /\ loc'[r].conn = "none"
             /\ UNCHANGED <<dbvars, lootvars, schemavars>>]_vars

C14_Witness ==
    \E r \in Reqs :
        /\ Done(r, "fetch_all")
        /\ req[r].db_key = "backgrounds"
        /\ resp[r].exc = "KeyError"
        /\ loc[r].conn = "none"
        /\ schema_initialized # {}

\* ------------------------------------------------------------------------
\* C15 Every request on the builds endpoints that fails is answered by an
\*     HTTPException, that is a JSON body with a `detail` string, with
\*     status 404 or 500; a request that fails for a storage error is
\*     answered 500 with the fixed message of its operation.
\* ------------------------------------------------------------------------
C15_FailuresAreJsonDetail ==
    \A r \in Reqs :
        (pc[r] = "done" /\ resp[r].status \notin {200, 201, 204})
        => /\ resp[r].exc = "HTTPException"
           /\ resp[r].status \in {404, 500}
           /\ req[r].fault # NoFault
              => /\ resp[r].status = 500
                 /\ resp[r].detail \in {"Failed to create build", "Failed to update build",
                                        "Failed to delete build", "Failed to load build",
                                        "Failed to list builds"}

\* ------------------------------------------------------------------------
\* C19 A Delete that fails between its two steps.
\*     As claimed: a Delete whose first step removed the level rows and
\*     whose second step fails is answered 500 "Failed to delete build" and
\*     leaves orphaned level rows: build_levels rows of the id with no
\*     builds row of the id.
\* ------------------------------------------------------------------------
C19_FailedDeleteLeavesOrphans ==
    \A r \in Reqs :
        (Done(r, "delete_build") /\ req[r].fault.stmt = "delete_build" /\ hist[r].changed)
        => /\ resp[r].status = 500
           /\ resp[r].detail = "Failed to delete build"
           /\ \E l \in build_levels :
                 l.build_id = req[r].id /\ \A b \in builds : b.id # l.build_id

\*     As amended: such a Delete is answered 500 "Failed to delete build"
\*     and leaves no level row of the id; the builds row of the id stays
\*     stored (unless another Delete has removed it), so what is left is a
\*     build without levels, never a level row without its build.
C19_FailedDeleteLeavesBuildWithoutLevels ==
    \A r \in Reqs :
        (Done(r, "delete_build") /\ req[r].fault.stmt = "delete_build")
        => /\ resp[r].status = 500
           /\ resp[r].detail = "Failed to delete build"
           /\ \A l \in build_levels : l.build_id # req[r].id
           /\ (hist[r].changed /\ req[r].id \notin deleted)
              => \E b \in builds : b.id = req[r].id

C19_Witness ==
    \E r \in Reqs :
        /\ Done(r, "delete_build")
        /\ req[r].fault.stmt = "delete_build"
        /\ hist[r].changed
        /\ resp[r].status = 500
        /\ \E b \in builds : b.id = req[r].id
        /\ \A l \in build_levels : l.build_id # req[r].id

\* ------------------------------------------------------------------------
\* C20 POST /api/builds with a valid payload is answered 201 with the
\*     created Build, or 500 when a statement of the request met a
\*     persistence error, and never 404.
\* ------------------------------------------------------------------------
C20_CreateAnswers201Or500 ==
    \A r \in Reqs :
        Done(r, "create_build")
        => /\ resp[r].status \in {201, 500}
           /\ resp[r].status = 500 => req[r].fault # NoFault
           /\ req[r].fault = NoFault => resp[r].status = 201

\* ------------------------------------------------------------------------
\* C17 Transaction protocol of Create and Replace: a request whose
\*     transaction runs to its end calls commit once and never rolls back; a
\*     request one of whose statements fails, or that finds no build to
\*     replace, rolls back once and commits nothing.
\* ------------------------------------------------------------------------
C17_TransactionProtocol ==
    \A r \in Reqs :
        (pc[r] = "done" /\ req[r].op \in {"create_build", "update_build"}
            /\ req[r].fault.stmt # "connect")
        => LET stmt == req[r].fault.stmt
               missing == req[r].op = "update_build" /\ loc[r].existing = {} /\ stmt # "select"
           IN IF missing
              THEN loc[r].rollbacks = 1 /\ loc[r].commits = 0
              ELSE IF stmt \in {"none", "fetch_build", "fetch_levels"}
              THEN loc[r].commits = 1 /\ loc[r].rollbacks = 0
              ELSE /\ loc[r].rollbacks = 1
                   /\ loc[r].commits = IF stmt = "commit" THEN 1 ELSE 0

\* ------------------------------------------------------------------------
\* C16 A Create or Replace whose body holds a level number outside 1..12 is
\*     answered 422 by validation: the step opens no connection (no schema
\*     flag is set), runs no statement and leaves every table as it was; and
\*     every level row stored has a level number in 1..12.
\* ------------------------------------------------------------------------
C16_LevelOutOfRangeRejected ==
    /\ [](\A l \in build_levels : l.level \in 1..12)
    /\ [][\A r \in Reqs :
             (/\ pc[r] \in {"create", "update_check"}
              /\ pc'[r] # pc[r]
              /\ \E i \in DOMAIN req[r].body.levels : req[r].body.levels[i].level \notin 1..12)
             => /\ pc'[r] = "done"
                /\ resp'[r].status = 422
                /\ loc'[r] = NoLocals
                /\ UNCHANGED <<dbvars, lootvars, schemavars>>]_vars

C16_Witness ==
    \E r, q \in Reqs :
        /\ Done(r, "create_build")
        /\ \E i \in DOMAIN req[r].body.levels : req[r].body.levels[i].level = 13
        /\ resp[r].status = 422
        /\ schema_initialized = {}
        /\ Done(q, "update_build")
        /\ \E i \in DOMAIN req[q].body.levels : req[q].body.levels[i].level = 13
        /\ resp[q].status = 422

SerialEffect(request, db) ==
    CASE request.op = "delete_build" ->
            [db EXCEPT
               !.build_levels = IF request.fault.stmt = "delete_levels" THEN @
                                ELSE {l \in @ : l.build_id # request.id},
               !.builds = IF request.fault # NoFault THEN @
                          ELSE {b \in @ : b.id # request.id}]
      [] request.op = "create_build" ->
            IF request.fault.stmt = "connect" THEN db
            ELSE create_build_txn(db, ValidateBuildCreate(request.body), request.fault).db
      [] request.op = "update_build" ->
            IF request.fault.stmt \in {"connect", "select"}
                  \/ \A b \in db.builds : b.id # request.id
            THEN db
            ELSE update_build_txn(db, request.id, ValidateBuildCreate(request.body),
                                  request.fault).db
      [] OTHER -> db

RECURSIVE SerialFrom(_, _, _)
SerialFrom(db, order, k) ==
    IF k > Len(order) THEN db
    ELSE SerialFrom(SerialEffect(req[order[k]], db), order, k + 1)

SerialOrders ==
    {order \in [1..Cardinality(Reqs) -> Reqs] :
        \A i, j \in DOMAIN order : order[i] = order[j] => i = j}

C18_ListsOrderedByName ==
    \A r \in Reqs :
        (/\ pc[r] = "done"
         /\ req[r].op \in {"list_builds", "list_loot_items", "list_enemies", "list_races"}
         /\ resp[r].status = 200)
        => \A i, j \in DOMAIN resp[r].body :
              i < j => ~NocaseLess(resp[r].body[j].name, resp[r].body[i].name)

\* ------------------------------------------------------------------------
\* C26 PUT /api/loot/{id} and PUT /api/bestiary/{id} for an id no row
\*     carries: the existence check answers 404 "Loot item not found" /
\*     "Enemy not found"; the request ends there, before any UPDATE, and
\*     every table is as it was, with no row for the id.
\* ------------------------------------------------------------------------
C26_SparseUpdateMissingIs404 ==
    [][\A r \in Reqs :
          (/\ pc[r] = "sparse_check"
           /\ pc'[r] # pc[r]
           /\ req[r].fault.stmt # "fetch_existing"
           /\ \A row \in (IF req[r].op = "update_loot_item" THEN items ELSE enemies) :
                  row.id # req[r].id)
          => /\ pc'[r] = "done"
             /\ resp'[r].status = 404
             /\ resp'[r].exc = "HTTPException"
             /\ resp'[r].detail = IF req[r].op = "update_loot_item"
                                  THEN "Loot item not found" ELSE "Enemy not found"
             /\ UNCHANGED <<dbvars, lootvars>>]_vars

C26_Witness ==
    \E r \in Reqs :
        /\ Done(r, "update_loot_item")
        /\ DOMAIN req[r].body # {}
        /\ req[r].fault = NoFault
        /\ resp[r].status = 404
        /\ resp[r].detail = "Loot item not found"
        /\ \A row \in items : row.id # req[r].id
        /\ items # {}

\* ------------------------------------------------------------------------
\* C30 Skill-choice round trip: deserialising the serialised form of a list
\*     gives the normalised list; normalising a normalised list changes
\*     nothing, so the list read back is a fixed point of the read; the
\*     normalised list holds stripped, non-empty texts, no two equal under
\*     casefold; and a NULL or empty stored value reads as the empty list.
\* ------------------------------------------------------------------------
C30_SkillChoicesRoundTrip ==
    \A r \in Reqs :
        /\ Done(r, "serialize")
           => LET x == req[r].body.skill_choices
                  read == resp[r].body
              IN /\ read = _normalize_skill_choices(x)
                 /\ _normalize_skill_choices(read) = read
                 /\ _deserialize_skill_choices(_serialize_skill_choices(read)) = read
                 /\ \A i \in DOMAIN read :
                       /\ read[i] # <<>>
                       /\ read[i][1] # " " /\ read[i][Len(read[i])] # " "
                       /\ \A j \in DOMAIN read : casefold(read[i]) = casefold(read[j]) => i = j
                 /\ \A i \in DOMAIN x :
                       \/ \A k \in DOMAIN x[i] : x[i][k] = " "
                       \/ \E j \in DOMAIN read : casefold(read[j]) = casefold(strip(x[i]))
        /\ Done(r, "deserialize") => resp[r].body = <<>>

C30_Witness ==
    \E r, q \in Reqs :
        /\ Done(r, "serialize")
        /\ req[r].body.skill_choices = <<<<" ", "\"">>, <<"\\", "A">>>>
        /\ resp[r].body = <<<<"\"">>, <<"\\", "A">>>>
        /\ Done(q, "deserialize")
        /\ req[q].body.value = NULL
        /\ resp[q].body = <<>>

\* ------------------------------------------------------------------------
\* C27 Requests served one at a time: after any sequence of Create, Replace
\*     and Delete requests, whichever of their statements failed, every
\*     build_levels row carries the id of a stored builds row whenever no
\*     request is being served.
\* ------------------------------------------------------------------------
C27_NoOrphanLevelsBetweenRequests ==
    (\A r \in Reqs : pc[r] \in {"idle", "done"})
    => \A l \in build_levels : \E b \in builds : b.id = l.build_id

C27_Witness ==
    \E r \in Reqs :
        /\ Done(r, "delete_build")
        /\ req[r].fault.stmt = "delete_build"
        /\ hist[r].changed
        /\ deleted # {}
        /\ \E b \in builds : b.id = req[r].id /\ \A l \in build_levels : l.build_id # b.id

StoredAs(id, body) ==
    /\ \E b \in builds :
          /\ b.id = id
          /\ b.name = body.name /\ b.race = body.race /\ b.class = body.class
          /\ b.subclass = body.subclass /\ b.notes = body.notes
          /\ _deserialize_skill_choices(b.skill_choices)
                = _normalize_skill_choices(body.skill_choices)
    /\ Cardinality({l \in build_levels : l.build_id = id}) = Len(body.levels)
    /\ \A i \in DOMAIN body.levels :
          \E l \in build_levels :
             /\ l.build_id = id
             /\ l.level = body.levels[i].level
             /\ l.spells = OrEmpty(body.levels[i].spells)
             /\ l.note = OrEmpty(body.levels[i].note)

\* ------------------------------------------------------------------------
\* C29 Two Replace requests for the same stored build, run concurrently with
\*     no storage error: when both have been answered the stored build is
\*     the payload of one of them in full, its scalar fields, its skill
\*     choices and exactly its levels.
\* ------------------------------------------------------------------------
C29_ConcurrentReplaceLastWriterWins ==
    \A r, q \in Reqs :
        (/\ r # q
         /\ Done(r, "update_build") /\ Done(q, "update_build")
         /\ req[r].id = req[q].id
         /\ req[r].fault = NoFault /\ req[q].fault = NoFault
         /\ loc[r].existing # {} /\ loc[q].existing # {})
        => \/ StoredAs(req[r].id, req[r].body)
           \/ StoredAs(req[q].id, req[q].body)

\* ------------------------------------------------------------------------
\* C22 Create round trip: a POST /api/builds that meets no storage error is
\*     answered 201 with a Build whose id is positive, whose name, class and
\*     notes are the payload's, whose skill choices are the payload's as a
\*     set, and which has one level for every level of the payload with its
\*     spells, feats and note; and a builds row with that id is stored.
\* ------------------------------------------------------------------------
C22_CreateRoundTrip ==
    \A r \in Reqs :
        (Done(r, "create_build") /\ req[r].fault = NoFault /\ ~hist[r].disturbed)
        => /\ resp[r].status = 201
           /\ Len(resp[r].body) = 1
           /\ LET build == resp[r].body[1]
                  payload == req[r].body
              IN /\ build.id > 0
                 /\ build.name = payload.name
                 /\ build.class_name = payload.class
                 /\ build.notes = payload.notes
                 /\ {casefold(c) : c \in {build.skill_choices[i] :
                                              i \in DOMAIN build.skill_choices}}
                       = {casefold(strip(c)) : c \in {payload.skill_choices[i] :
                                                        i \in DOMAIN payload.skill_choices}}
                            \ {<<>>}
                 /\ Len(build.levels) = Len(payload.levels)
                 /\ \A i \in DOMAIN payload.levels :
                       \E j \in DOMAIN build.levels :
                          /\ build.levels[j].level = payload.levels[i].level
                          /\ build.levels[j].spells = OrEmpty(payload.levels[i].spells)
                          /\ build.levels[j].feats = OrEmpty(payload.levels[i].feats)
                          /\ build.levels[j].note = OrEmpty(payload.levels[i].note)
                 /\ \E b \in builds : b.id = build.id

\* The boolean a read returns for a stored is_collected.
AsBoolean(stored) == IF stored = SqlInt(1) THEN PyTrue ELSE PyFalse

\* ------------------------------------------------------------------------
\* C21 is_collected of a loot item: every stored value is 0 or 1; a create
\*     stores 1 for true and 0 for false (or for no value), an update that
\*     carries true or false stores 1 or 0; and every item a list, a create
\*     or an update returns carries a boolean, true exactly when the row
\*     holds 1 at the read, that is the value last written.
\* ------------------------------------------------------------------------
C21_CollectedRoundTrip ==
    /\ [](\A row \in items : row.is_collected \in {SqlInt(0), SqlInt(1)})
    /\ [][\A r \in Reqs :
             /\ (pc[r] = "create_loot" /\ pc'[r] = "create_loot_reload")
                => \E row \in items' \ items :
                      /\ row.id = loc'[r].new_id
                      /\ row.is_collected =
                            IF "is_collected" \in DOMAIN req[r].body
                                  /\ req[r].body.is_collected = PyTrue
                            THEN SqlInt(1) ELSE SqlInt(0)
             /\ (req[r].op = "update_loot_item" /\ pc[r] = "sparse_write"
                    /\ pc'[r] = "sparse_reload" /\ "is_collected" \in DOMAIN req[r].body)
                => \E row \in items' :
                      /\ row.id = req[r].id
                      /\ row.is_collected =
                            IF req[r].body.is_collected = PyTrue THEN SqlInt(1) ELSE SqlInt(0)
                      /\ req[r].body.is_collected \in {PyTrue, PyFalse}
             /\ (/\ req[r].op \in {"create_loot_item", "update_loot_item", "list_loot_items"}
                 /\ pc[r] # "done" /\ pc'[r] = "done"
                 /\ resp'[r].status \in {200, 201})
                => \A i \in DOMAIN resp'[r].body :
                      /\ resp'[r].body[i].is_collected \in {PyTrue, PyFalse}
                      /\ \E row \in items :
                            /\ row.id = resp'[r].body[i].id
                            /\ resp'[r].body[i].is_collected = AsBoolean(row.is_collected)]_vars

C21_Witness ==
    \E r, q \in Reqs :
        /\ Done(r, "create_loot_item")
        /\ resp[r].status = 201
        /\ "is_collected" \in DOMAIN req[r].body
        /\ req[r].body.is_collected = PyTrue
        /\ resp[r].body[1].is_collected = PyTrue
        /\ \E row \in items : row.id = resp[r].body[1].id /\ row.is_collected = SqlInt(1)
        /\ Done(q, "update_loot_item")
        /\ resp[q].status = 200
        /\ req[q].id = 2
        /\ "is_collected" \in DOMAIN req[q].body
        /\ req[q].body.is_collected = PyFalse
        /\ resp[q].body[1].is_collected = PyFalse

\* `word` (in lower case) stands in `text` in any letter case with no letter,
\* digit or underscore right before it or right after it.
ContainsWord(text, word) ==
    \E i \in DOMAIN text :
        LET j == i + Len(word) - 1
        IN /\ j <= Len(text)
           /\ [k \in DOMAIN word |-> Lower(text[i + k - 1])] = word
           /\ (i = 1 \/ ~IsWordChar(text[i - 1]))
           /\ (j = Len(text) \/ ~IsWordChar(text[j + 1]))

\* The schools whose keyword stands in `description` as a whole word.
SchoolsNamed(description) ==
    IF description \in {NULL, EMPTY} THEN {}
    ELSE {SPELL_SCHOOL_KEYWORDS[k].canonical :
             k \in {n \in DOMAIN SPELL_SCHOOL_KEYWORDS :
                       ContainsWord(description, SPELL_SCHOOL_KEYWORDS[n].keyword)}}

\* The school a returned spell carries (NULL: none).
SchoolOf(spell) == IF "school" \in DOMAIN spell THEN spell.school ELSE NULL

\* ------------------------------------------------------------------------
\* C23 Spell school: every spell GET /api/spells returns whose description
\*     holds a school keyword as a whole word, in any letter case, carries
\*     the canonical name of such a school; a spell with no description, an
\*     empty one, or one with no keyword as a whole word carries no school.
\* ------------------------------------------------------------------------
C23_SpellSchoolInferred ==
    \A r \in Reqs :
        (Done(r, "list_spells") /\ resp[r].status = 200)
        => \A i \in DOMAIN resp[r].body :
              LET spell == resp[r].body[i]
                  named == SchoolsNamed(spell.description)
              IN IF named = {} THEN SchoolOf(spell) = NULL
                 ELSE SchoolOf(spell) \in named

\* The function alone: _infer_spell_school of a stored description is a school
\* the description names, and none when it names none.
InferenceAlone ==
    \A row \in reference["Spells"] :
        LET named == SchoolsNamed(row.description)
            school == _infer_spell_school(row.description)
        IN IF named = {} THEN school = NULL ELSE school \in named

\* The tables nested under the parents of a reference list: the table, its
\* parent key and the field of the parent that lists its rows.
NestedTables ==
    [list_spells |-> {<<"Spell_Properties", "spell_name", "properties">>},
     list_backgrounds |-> {<<"Background_Skills", "background_name", "skills">>,
                           <<"Background_Characters", "background_name", "characters">>,
                           <<"Background_Notes", "background_name", "notes">>},
     list_feats |-> {<<"Feat_Options", "feat_name", "options">>,
                     <<"Feat_Notes", "feat_name", "notes">>},
     list_abilities |-> {<<"Ability_Uses", "ability_name", "uses">>,
                         <<"Ability_Checks", "ability_name", "checks">>,
                         <<"Ability_Check_Skills", "ability_name", "skills">>,
                         <<"Ability_Saves", "ability_name", "saves">>}]

\* ------------------------------------------------------------------------
\* C24 Nested children: when a list of spells, backgrounds, feats or
\*     abilities has answered (no storage fault), every parent it returned
\*     lists as many children of each nested table as the table has rows
\*     keyed with the parent's name (none: the empty list), and every row of
\*     a nested table is keyed with the name of exactly one returned parent.
\* ------------------------------------------------------------------------
C24_ChildrenGroupedByParent ==
    \A r \in Reqs :
        (/\ pc[r] = "done"
         /\ req[r].op \in DOMAIN NestedTables
         /\ req[r].fault = NoFault)
        => \A nested \in NestedTables[req[r].op] :
              /\ \A i \in DOMAIN resp[r].body :
                    Len(resp[r].body[i][nested[3]])
                       = Cardinality({child \in reference[nested[1]] :
                                         child[nested[2]] = resp[r].body[i].name})
              /\ \A child \in reference[nested[1]] :
                    Cardinality({i \in DOMAIN resp[r].body :
                                    resp[r].body[i].name = child[nested[2]]}) = 1

\* ------------------------------------------------------------------------
\* C25 Reference lists: a reference list that meets no storage fault answers
\*     200, and none ends in the KeyError get_connection raises for a
\*     database key that is not registered.
\* ------------------------------------------------------------------------
C25_ReferenceListsAnswer200 ==
    \A r \in Reqs :
        (pc[r] = "done" /\ req[r].op \in ReferenceLists)
        => /\ resp[r].exc # "KeyError"
           /\ req[r].fault = NoFault => resp[r].status = 200

====
